---- MODULE Spec2Model ----
(***************************************************************************)
(* GuardrailedMultiToolAgent (research_agent/multi_tool_agent.py): the     *)
(* classifier heuristics, the plan builder, and run, the step executor     *)
(* with its synthesis, visual decision and persistence of                  *)
(* output/latest_explanation.json.                                         *)
(*                                                                         *)
(* A text is a sequence of one-character strings; a code point outside     *)
(* ASCII is written "U+XXXX" and is one character of the text.             *)
(***************************************************************************)
EXTENDS Naturals, Sequences, FiniteSets, TLC

\* ---------------------------------------------------------------- bounds
\* A request text of the planning specification is the concatenation of at
\* most MaxFrags fragments of Fragments.
MaxFrags == 3
\* The synthesis collaborator proposes at most MaxBrief visual_brief items.
MaxBrief == 3
\* The visualizer returns at most MaxIcons generated icons.
MaxIcons == 2

\* ------------------------------------------------------------ characters
LowerLetters ==
  <<"a", "b", "c", "d", "e", "f", "g", "h", "i", "j", "k", "l", "m",
    "n", "o", "p", "q", "r", "s", "t", "u", "v", "w", "x", "y", "z">>

UpperLetters ==
  <<"A", "B", "C", "D", "E", "F", "G", "H", "I", "J", "K", "L", "M",
    "N", "O", "P", "Q", "R", "S", "T", "U", "V", "W", "X", "Y", "Z">>

Range(s) == {s[k] : k \in DOMAIN s}

Digits == {"0", "1", "2", "3", "4", "5", "6", "7", "8", "9"}

Letters == Range(LowerLetters) \cup Range(UpperLetters)

\* \s of re and the characters str.strip() removes
Whitespace == {" ", "\n", "\t"}

\* \w of re: alphanumerics (the Greek sigma among them) and the underscore
WordChars == Letters \cup Digits \cup {"_", "U+03A3", "U+03C3"}

Vowels == {"a", "e", "i", "o", "u", "A", "E", "I", "O", "U"}

\* str.lower() on one character
LowerOf ==
  [c \in Range(UpperLetters) |->
     LowerLetters[CHOOSE k \in DOMAIN UpperLetters : UpperLetters[k] = c]]

LowerChar(c) ==
  IF c \in DOMAIN LowerOf
    THEN LowerOf[c]
    ELSE IF c = "U+03A3" THEN "U+03C3" ELSE c

\* str.lower()
Lower(t) == [k \in DOMAIN t |-> LowerChar(t[k])]

\* the slice t[a..b] (1-based, inclusive), empty when a > b
Slice(t, a, b) == SubSeq(t, a, b)

\* w occurs in t starting at position i
OccursAt(t, w, i) ==
  /\ i >= 1
  /\ i + Len(w) - 1 <= Len(t)
  /\ \A k \in 1..Len(w) : t[i + k - 1] = w[k]

\* `w in t` of Python
Contains(t, w) == \E i \in 1..(Len(t) + 1) : OccursAt(t, w, i)

\* any(k in t for k in words)
ContainsAny(t, words) == \E w \in words : Contains(t, w)

\* str.strip(): whitespace removed at both ends
Strip(t) ==
  IF \A k \in DOMAIN t : t[k] \in Whitespace
    THEN <<>>
    ELSE LET a == CHOOSE k \in DOMAIN t :
                    t[k] \notin Whitespace /\ \A j \in 1..(k - 1) : t[j] \in Whitespace
             b == CHOOSE k \in DOMAIN t :
                    t[k] \notin Whitespace /\ \A j \in (k + 1)..Len(t) : t[j] \in Whitespace
         IN  Slice(t, a, b)

\* str.rstrip(chars)
RStrip(t, chars) ==
  IF \A k \in DOMAIN t : t[k] \in chars
    THEN <<>>
    ELSE LET b == CHOOSE k \in DOMAIN t :
                    t[k] \notin chars /\ \A j \in (k + 1)..Len(t) : t[j] \in chars
         IN  Slice(t, 1, b)

\* re.fullmatch(r"[class]+", t)
FullMatchPlus(t, class) == Len(t) >= 1 /\ \A k \in DOMAIN t : t[k] \in class

\* the number of characters of `class` at the start of t from position i on
RunLen(t, i, class) ==
  IF i > Len(t) \/ t[i] \notin class
    THEN 0
    ELSE (CHOOSE e \in i..Len(t) :
            /\ \A k \in i..e : t[k] \in class
            /\ (e = Len(t) \/ t[e + 1] \notin class)) - i + 1

\* ------------------------------------------------------------- heuristics
CodeWrapper == <<"P", "l", "e", "a", "s", "e", " ", "a", "n", "a", "l", "y", "z", "e", " ", "t", "h", "e", " ", "c", "o", "d", "e", " ", "f", "i", "l", "e", " ", "'">>

\* _extract_code_path: re.search(r"Please analyze the code file '([^']+)'"),
\* group 1 of the leftmost match; <<>> stands for None (a match's group is
\* never empty)
CodePathMatchAt(text, i) ==
  LET s == i + Len(CodeWrapper)
  IN  /\ OccursAt(text, CodeWrapper, i)
      /\ RunLen(text, s, Range(text) \ {"'"}) >= 1
      /\ s + RunLen(text, s, Range(text) \ {"'"}) <= Len(text)

_extract_code_path(text) ==
  IF \E i \in DOMAIN text : CodePathMatchAt(text, i)
    THEN LET i == CHOOSE i \in DOMAIN text :
                    CodePathMatchAt(text, i)
                    /\ \A j \in 1..(i - 1) : ~CodePathMatchAt(text, j)
             s == i + Len(CodeWrapper)
         IN  Slice(text, s, s + RunLen(text, s, Range(text) \ {"'"}) - 1)
    ELSE <<>>

math_keywords ==
  { <<"i", "n", "t", "e", "g", "r", "a", "t", "e">>, <<"d", "i", "f", "f", "e", "r", "e", "n", "t", "i", "a", "t", "e">>, <<"s", "o", "l", "v", "e">>, <<"s", "i", "m", "p", "l", "i", "f", "y">>, <<"l", "i", "m", "i", "t">>,
    <<"s", "e", "r", "i", "e", "s">>, <<"m", "a", "t", "r", "i", "x">>, <<"d", "e", "t", "e", "r", "m", "i", "n", "a", "n", "t">>, <<"e", "i", "g", "e", "n">>, <<"g", "r", "a", "d", "i", "e", "n", "t">>,
    <<"d", "e", "r", "i", "v", "a", "t", "i", "v", "e">>, <<"c", "o", "n", "v", "e", "r", "g", "e">>, <<"p", "r", "o", "o", "f">> }

\* [+\-/*^=] and the integral, sum, root, approx, <=, >= signs
MathSymbols ==
  {"+", "-", "/", "*", "^", "=",
   "U+222B", "U+03A3", "U+221A", "U+2248", "U+2264", "U+2265"}

_looks_like_math(text) ==
  \/ ContainsAny(Lower(text), math_keywords)
  \/ \E k \in DOMAIN text : text[k] \in MathSymbols

\* [0-9\.\s\+\-\*/\^\(\)]
MathSpanChars == Digits \cup Whitespace \cup {".", "+", "-", "*", "/", "^", "(", ")"}

\* re.findall(r"[0-9\.\s\+\-\*/\^\(\)]+", text): the start positions of the
\* maximal runs
MathSpanStarts(text) ==
  {i \in DOMAIN text :
     text[i] \in MathSpanChars /\ (i = 1 \/ text[i - 1] \notin MathSpanChars)}

\* _extract_math_expr: max(m, key=len) is the first of the longest runs;
\* <<>> stands for None (a candidate with a digit is never empty)
_extract_math_expr(text) ==
  IF MathSpanStarts(text) = {}
    THEN <<>>
    ELSE LET len(i) == RunLen(text, i, MathSpanChars)
             best == CHOOSE i \in MathSpanStarts(text) :
                       \A j \in MathSpanStarts(text) :
                         len(j) < len(i) \/ (len(j) = len(i) /\ i <= j)
             candidate == Strip(Slice(text, best, best + len(best) - 1))
         IN  IF \E k \in DOMAIN candidate : candidate[k] \in Digits
               THEN candidate
               ELSE <<>>

\* re.sub(r"^(what\s+is\s+|calculate\s+|compute\s+)", "", t): the number of
\* characters the leading boilerplate takes
BoilerplateLen(t) ==
  LET w1 == RunLen(t, 5, Whitespace)
      w2 == RunLen(t, 5 + w1 + 2, Whitespace)
      wc == RunLen(t, 10, Whitespace)
      wp == RunLen(t, 8, Whitespace)
  IN  IF OccursAt(t, <<"w", "h", "a", "t">>, 1) /\ w1 >= 1
         /\ OccursAt(t, <<"i", "s">>, 5 + w1) /\ w2 >= 1
        THEN 4 + w1 + 2 + w2
      ELSE IF OccursAt(t, <<"c", "a", "l", "c", "u", "l", "a", "t", "e">>, 1) /\ wc >= 1
        THEN 9 + wc
      ELSE IF OccursAt(t, <<"c", "o", "m", "p", "u", "t", "e">>, 1) /\ wp >= 1
        THEN 7 + wp
      ELSE 0

\* [a-df-hj-oq-rt-vx-z]: every lower-case letter but e, i, p, s, w
NonTrivialLetters == Range(LowerLetters) \ {"e", "i", "p", "s", "w"}

\* [\d\s()+\-*/^.]
ArithmeticChars == Digits \cup Whitespace \cup {"(", ")", "+", "-", "*", "/", "^", "."}

TrivialMaxLen == 30

\* the closing "?", "." and "!" are not taken off
_is_trivial_arithmetic_NoRStrip(text) ==
  LET t0 == Strip(Lower(text))
      t  == Slice(t0, BoilerplateLen(t0) + 1, Len(t0))
  IN  IF \E k \in DOMAIN t : t[k] \in NonTrivialLetters
        THEN FALSE
        ELSE FullMatchPlus(t, ArithmeticChars) /\ Len(t) <= TrivialMaxLen

_is_trivial_arithmetic(text) ==
  LET t0 == Strip(Lower(text))
      t1 == Slice(t0, BoilerplateLen(t0) + 1, Len(t0))
      t  == RStrip(t1, {"?", ".", "!", " "})
  IN  IF \E k \in DOMAIN t : t[k] \in NonTrivialLetters
        THEN FALSE
        ELSE FullMatchPlus(t, ArithmeticChars) /\ Len(t) <= TrivialMaxLen

keyword_triggers ==
  { <<"i", "c", "o", "n">>, <<"i", "c", "o", "n", "s">>, <<"d", "i", "a", "g", "r", "a", "m">>, <<"d", "i", "a", "g", "r", "a", "m", "s">>, <<"v", "i", "s", "u", "a", "l">>, <<"v", "i", "s", "u", "a", "l", "s">>,
    <<"a", "n", "i", "m", "a", "t", "i", "o", "n">>, <<"i", "l", "l", "u", "s", "t", "r", "a", "t", "i", "o", "n">>, <<"f", "i", "g", "u", "r", "e">>, <<"f", "i", "g", "u", "r", "e", "s">>, <<"m", "e", "m", "e">>,
    <<"t", "h", "u", "m", "b", "n", "a", "i", "l">>, <<"s", "k", "e", "t", "c", "h">>, <<"d", "r", "a", "w">>, <<"p", "i", "c", "t", "u", "r", "e">>, <<"i", "m", "a", "g", "e">>, <<"g", "r", "a", "p", "h", "i", "c">> }

\* \bw\b at position i of t: w stands there with no word character before
\* or after it
WordAt(t, w, i) ==
  /\ OccursAt(t, w, i)
  /\ (i = 1 \/ t[i - 1] \notin WordChars)
  /\ (i + Len(w) > Len(t) \/ t[i + Len(w)] \notin WordChars)

InstructionVerbs ==
  { <<"e", "x", "p", "l", "a", "i", "n">>, <<"i", "l", "l", "u", "s", "t", "r", "a", "t", "e">>, <<"v", "i", "s", "u", "a", "l", "i", "s", "e">>, <<"v", "i", "s", "u", "a", "l", "i", "z", "e">>, <<"s", "h", "o", "w">>, <<"t", "e", "a", "c", "h">> }

InstructionPreps == { <<"w", "i", "t", "h">>, <<"u", "s", "i", "n", "g">> }

\* re.search(r"\b(explain|illustrate|visuali[sz]e|show|teach)\b.*\b(with|using)\b", t)
\* ('.' does not match a newline)
InstructionalPhrasing(t) ==
  \E v \in InstructionVerbs :
    \E i \in DOMAIN t :
      /\ WordAt(t, v, i)
      /\ \E p \in InstructionPreps :
           \E j \in (i + Len(v))..Len(t) :
             /\ WordAt(t, p, j)
             /\ \A k \in (i + Len(v))..(j - 1) : t[k] # "\n"

\* re.search(r"\bexplain\b\s+\bwith\b\s+\w+", t)
ExplainWith(t) ==
  \E i \in DOMAIN t :
    LET r1 == RunLen(t, i + 7, Whitespace)
        p  == i + 7 + r1
        r2 == RunLen(t, p + 4, Whitespace)
    IN  /\ WordAt(t, <<"e", "x", "p", "l", "a", "i", "n">>, i)
        /\ r1 >= 1
        /\ WordAt(t, <<"w", "i", "t", "h">>, p)
        /\ r2 >= 1
        /\ p + 4 + r2 <= Len(t)
        /\ t[p + 4 + r2] \in WordChars

_wants_icons_from_user(text) ==
  LET t == Lower(text)
  IN  \/ ContainsAny(t, keyword_triggers)
      \/ InstructionalPhrasing(t)
      \/ ExplainWith(t)

ClarifyMinLen == 3

GibberishMinLen == 6

intent_keywords ==
  { <<"m", "a", "t", "h">>, <<"c", "o", "d", "e">>, <<"e", "x", "p", "l", "a", "i", "n">>, <<"w", "h", "a", "t">>, <<"w", "h", "y">>, <<"h", "o", "w">> }

\* a single word is taken for nonsense only when it has no vowel
_needs_clarification_VowelFree(text) ==
  LET t == Strip(text)
  IN  \/ Len(t) < ClarifyMinLen
      \/ FullMatchPlus(t, (Range(t) \ WordChars) \cup {"_"})
      \/ (~\E k \in DOMAIN t : t[k] \in Vowels) /\ Len(t) > GibberishMinLen

_needs_clarification(text) ==
  LET t == Strip(text)
  IN  \/ Len(t) < ClarifyMinLen
      \* re.fullmatch(r"[\W_]+", t)
      \/ FullMatchPlus(t, (Range(t) \ WordChars) \cup {"_"})
      \/ (~\E k \in DOMAIN t : t[k] \in Vowels) /\ Len(t) > GibberishMinLen
      \* re.fullmatch(r"[a-zA-Z]{6,}", t) and none of the intent keywords
      \/ /\ \A k \in DOMAIN t : t[k] \in Letters
         /\ Len(t) >= GibberishMinLen
         /\ ~ContainsAny(Lower(t), intent_keywords)

\* "theorem" alone signals theory
theory_triggers_TheoremOnly == { <<"t", "h", "e", "o", "r", "e", "m">> }

theory_triggers ==
  { <<"p", "r", "o", "o", "f">>, <<"t", "h", "e", "o", "r", "e", "m">>, <<"c", "o", "n", "v", "e", "r", "g", "e", "n", "c", "e">>, <<"b", "o", "u", "n", "d">>, <<"r", "a", "t", "e">>,
    <<"l", "o", "w", "e", "r", " ", "b", "o", "u", "n", "d">>, <<"u", "p", "p", "e", "r", " ", "b", "o", "u", "n", "d">> }

\* the default is ON for trivial arithmetic as for any other text
_needs_arxiv_IgnoresTrivial(text, is_math, code_path, trivial_math) ==
  IF code_path # <<>> THEN FALSE
  ELSE IF is_math THEN ContainsAny(Lower(text), theory_triggers)
  ELSE TRUE

\* code_path is truthy exactly when it is not <<>>
_needs_arxiv(text, is_math, code_path, trivial_math) ==
  IF code_path # <<>> THEN FALSE
  ELSE IF trivial_math THEN FALSE
  ELSE IF is_math THEN ContainsAny(Lower(text), theory_triggers)
  ELSE TRUE

\* ---------------------------------------------------------------- planning
\* args={} of the final_answer step
EmptyArgs == [k \in {} |-> <<>>]

ArxivMaxResults == 5

\* a step that does not take the running index
StepPlan_ZeroIdx(idx, tool, args) == [idx |-> 0, tool |-> tool, args |-> args]

\* StepPlan(idx, tool, reason, args); the reason is a fixed text per tool that
\* nothing reads but the printed trace, and is left out
StepPlan(idx, tool, args) == [idx |-> idx, tool |-> tool, args |-> args]

\* the steps _build_plan appends one after another, i being the running index
ClarificationSteps(user_input, wants_clar) ==
  IF wants_clar
    THEN << StepPlan(0, "ask_clarification", [prompt |-> user_input]) >>
    ELSE << >>

\* the path is passed for the question
CodeSteps_PathAsQuestion(i, user_input, code_path) ==
  IF code_path # <<>>
    THEN << [idx |-> i, tool |-> "code_analysis",
             args |-> [file_path |-> code_path, question |-> code_path]] >>
    ELSE << >>

CodeSteps(i, user_input, code_path) ==
  IF code_path # <<>>
    THEN << StepPlan(i, "code_analysis",
                     [file_path |-> code_path, question |-> user_input]) >>
    ELSE << >>

MathSteps(i, user_input, is_math) ==
  IF is_math
    THEN LET e == _extract_math_expr(user_input)
             expr == IF e # <<>> THEN e ELSE user_input
         IN  << StepPlan(i, "sympy", [expression |-> expr]) >>
    ELSE << >>

\* arxiv_search appended twice
ArxivSteps_Twice(i, user_input, wants_arxiv) ==
  IF wants_arxiv
    THEN << [idx |-> i, tool |-> "arxiv_search", args |-> [query |-> user_input]],
            [idx |-> i + 1, tool |-> "arxiv_search", args |-> [query |-> user_input]] >>
    ELSE << >>

ArxivSteps(i, user_input, wants_arxiv) ==
  IF wants_arxiv
    THEN << StepPlan(i, "arxiv_search",
                     [query |-> user_input, max_results |-> ArxivMaxResults,
                      debug |-> FALSE]) >>
    ELSE << >>

\* final_answer appended twice
FinalSteps_Twice(i) ==
  << StepPlan(i, "final_answer", EmptyArgs),
     StepPlan(i + 1, "final_answer", EmptyArgs) >>

FinalSteps(i) == << StepPlan(i, "final_answer", EmptyArgs) >>

_build_plan(user_input) ==
  LET code_path    == _extract_code_path(user_input)
      is_math      == _looks_like_math(user_input)
      trivial_math == _is_trivial_arithmetic(user_input)
      wants_arxiv  == _needs_arxiv(user_input, is_math, code_path, trivial_math)
      wants_clar   == _needs_clarification(user_input)
      p0 == ClarificationSteps(user_input, wants_clar)
      p1 == p0 \o CodeSteps(Len(p0), user_input, code_path)
      p2 == p1 \o MathSteps(Len(p1), user_input, is_math)
      p3 == p2 \o ArxivSteps(Len(p2), user_input, wants_arxiv)
  IN  p3 \o FinalSteps(Len(p3))

\* the tools of a plan, in plan order
PlanTools(plan) == [k \in DOMAIN plan |-> plan[k].tool]

\* ------------------------------------------------------------- JSON values
\* A value read by json.loads is modelled by its type tag t and, for the
\* types the code looks into, its parts:
\*   "absent"  the key is not in the enclosing object
\*   "null"    None, or another falsy value that is not of the expected type
\*             (0, "", false, or an empty container of the wrong kind): the
\*             code treats all of them alike
\*   "other"   a truthy value that is not of the expected type
\*   "dict" / "list" / "str"   a value of the expected type
JAbsent == "absent"

\* the concepts a visual_brief names, in the order proposed
ConceptNames == << <<"s", "l", "o", "p", "e">>, <<" ", "a", "r", "e", "a", " ">>, <<"v", "e", "c", "t", "o", "r">>, <<"l", "i", "m", "i", "t">>, <<"c", "u", "r", "v", "e">>, <<"a", "x", "i", "s">> >>

BriefItem(k) == [concept |-> ConceptNames[k], caption |-> <<"c", "a", "p">>]

\* a visual_brief item whose concept is the empty string
NoConceptItem == [concept |-> << >>, caption |-> <<"c", "a", "p">>]

\* question values
QStr(text) == [t |-> "str", text |-> text]
QOf(tag) == [t |-> tag, text |-> << >>]

\* visual_brief values
VBList(items) == [t |-> "list", items |-> items]
VBOf(tag) == [t |-> tag, items |-> << >>]

\* visual_assets.icons values
IconsList(items) == [t |-> "list", items |-> items]
IconsOf(tag) == [t |-> tag, items |-> << >>]

\* visual_assets values
VADict(icons) == [t |-> "dict", icons |-> icons]
VAOf(tag) == [t |-> tag, icons |-> IconsOf(JAbsent)]

\* explanation.content values
ContentStr(text) == [t |-> "str", text |-> text]
ContentOf(tag) == [t |-> tag, text |-> << >>]

\* explanation values
ExplDict(content) == [t |-> "dict", content |-> content]
ExplOf(tag) == [t |-> tag, content |-> ContentOf(JAbsent)]

\* a JSON object with the payload's keys
Payload(question, explanation, visual_brief, visual_assets) ==
  [t |-> "dict", question |-> question, explanation |-> explanation,
   visual_brief |-> visual_brief, visual_assets |-> visual_assets]

\* a JSON value that is not an object (a list, a string, a number, true,
\* false, null), by its truthiness
NonObject(truthy) == [t |-> "other", truthy |-> truthy]

\* final_payload = None
None == [t |-> "none"]

\* bool(v) of a top-level value
Truthy(v) ==
  CASE v.t = "none"  -> FALSE
    [] v.t = "other" -> v.truthy
    [] v.t = "dict"  -> \/ v.question.t # JAbsent
                        \/ v.explanation.t # JAbsent
                        \/ v.visual_brief.t # JAbsent
                        \/ v.visual_assets.t # JAbsent

\* the text a tool returns: JSON text of a value, or text json.loads rejects
JsonText(value) == [json |-> TRUE, value |-> value, raw |-> << >>]
PlainText(raw) == [json |-> FALSE, value |-> None, raw |-> raw]

\* the exceptions of the model, all subclasses of Exception:
\*   "ToolError" a collaborator's forward raised, "JSONDecodeError" json.loads,
\*   "AttributeError" a method looked up on a value of the wrong type,
\*   "OSError" os.makedirs, open or write failed
ExceptionClasses == {"ToolError", "JSONDecodeError", "AttributeError", "OSError"}

\* `except RuntimeError`-like handler that lets file errors through
ExceptCatches_NotOSError(exc) == exc \in ExceptionClasses \ {"OSError"}

\* `except Exception` (line 333) catches every one of them
ExceptCatches(exc) == exc \in ExceptionClasses

\* lines 289-294: the payload built locally from unparseable output
MinimalPayload(user_input, result_str) ==
  Payload(QStr(user_input), ExplDict(ContentStr(result_str.raw)),
          VBList(<< >>), VADict(IconsList(<< >>)))

\* lines 286-294: json.loads(result_str), or the minimal payload
ParsePayload(user_input, result_str) ==
  IF result_str.json
    THEN result_str.value
    ELSE MinimalPayload(user_input, result_str)

\* lines 295-296: setdefault("visual_brief", []) and
\* setdefault("visual_assets", {}).setdefault("icons", []); a dict has
\* setdefault, nothing else has
BackfillRaises(p) ==
  \/ p.t # "dict"
  \/ p.visual_assets.t \in {"null", "other"}

SetDefaultBrief(p) ==
  IF p.visual_brief.t = JAbsent
    THEN [p EXCEPT !.visual_brief = VBList(<< >>)]
    ELSE p

SetDefaultIcons(p) ==
  IF p.visual_assets.t = JAbsent
    THEN [p EXCEPT !.visual_assets = VADict(IconsList(<< >>))]
    ELSE IF p.visual_assets.t = "dict" /\ p.visual_assets.icons.t = JAbsent
      THEN [p EXCEPT !.visual_assets.icons = IconsList(<< >>)]
      ELSE p

\* the payload as the two statements leave it; the first has taken effect
\* when the second raises
Backfill(p) ==
  IF p.t # "dict" THEN p
  ELSE IF BackfillRaises(p) THEN SetDefaultBrief(p)
  ELSE SetDefaultIcons(SetDefaultBrief(p))

\* lines 337-342: the payload returned when final_payload is falsy
FallbackPayload(user_input) ==
  Payload(QStr(user_input), ExplDict(ContentStr(<<"N", "o", " ", "e", "x", "p", "l", "a", "n", "a", "t", "i", "o", "n", " ", "p", "r", "o", "d", "u", "c", "e", "d", ".">>)),
          VBList(<< >>), VADict(IconsList(<< >>)))

visual_cues ==
  { <<"i", "m", "a", "g", "i", "n", "e">>, <<"p", "i", "c", "t", "u", "r", "e">>, <<"s", "e", "e">>, <<"v", "i", "s", "u", "a", "l">>, <<"d", "i", "a", "g", "r", "a", "m">>, <<"a", "r", "r", "o", "w">>,
    <<"n", "u", "m", "b", "e", "r", " ", "l", "i", "n", "e">>, <<"a", "r", "e", "a", " ", "u", "n", "d", "e", "r">>, <<"v", "e", "c", "t", "o", "r">>, <<"s", "l", "i", "d", "e">>, <<"s", "t", "a", "c", "k">>,
    <<"h", "i", "g", "h", "l", "i", "g", "h", "t">>, <<"s", "h", "a", "d", "e">> }

\* _wants_icons_from_final raises where .get or .lower meets a truthy value
\* of the wrong type (line 107)
WantsFinalRaises(payload) ==
  /\ Truthy(payload)
  /\ ~(payload.visual_brief.t = "list" /\ Len(payload.visual_brief.items) > 0)
  /\ \/ payload.explanation.t = "other"
     \/ payload.explanation.t = "dict" /\ payload.explanation.content.t = "other"

_wants_icons_from_final(payload) ==
  IF ~Truthy(payload) THEN FALSE
  ELSE IF payload.visual_brief.t = "list" /\ Len(payload.visual_brief.items) > 0
    THEN TRUE
  ELSE LET expl == IF payload.explanation.t = "dict"
                      /\ payload.explanation.content.t = "str"
                     THEN Lower(payload.explanation.content.text)
                     ELSE << >>
       IN  ContainsAny(expl, visual_cues)

\* --------------------------------------------------- collaborators' outputs
DigitText == <<"1", "2", "3", "4", "5", "6", "7", "8", "9">>

\* what a tool call comes to: it raises, or it returns a text
Raises == [raised |-> TRUE, text |-> << >>]
Returns(text) == [raised |-> FALSE, text |-> text]

\* final_answer and icon_generation return JSON text
RaisesJson == [raised |-> TRUE, text |-> PlainText(<< >>)]

\* code_analysis, sympy and arxiv_search return a text
ToolResults == {Raises, Returns(<<"o", "k">>), Returns(<<"o", "k", "\n">>)}

\* ask_clarification returns one follow-up question, or the empty string
\* where the request is clear enough
ClarificationResults ==
  {Raises, Returns(<< >>), Returns(<<"w", "h", "i", "c", "h", "?">>)}

ExplanationTexts == { <<"i", "m", "a", "g", "i", "n", "e", " ", "a", " ", "l", "i", "n", "e">>, <<"t", "w", "o">> }

BriefValues ==
  {VBOf(JAbsent), VBOf("null"), VBOf("other")}
    \cup {VBList([k \in 1..n |-> BriefItem(k)]) : n \in 0..MaxBrief}
    \cup {VBList(<< BriefItem(1), NoConceptItem >>)}

PriorIcon == [concept |-> <<"o", "l", "d">>, path |-> <<"o", "l", "d", ".", "p", "n", "g">>]

IconsValues ==
  {IconsOf(JAbsent), IconsOf("null"), IconsList(<< >>), IconsList(<< PriorIcon >>)}

AssetsValues ==
  {VAOf(JAbsent), VAOf("null"), VAOf("other")} \cup {VADict(ic) : ic \in IconsValues}

ContentValues ==
  {ContentOf(JAbsent), ContentOf("other")}
    \cup {ContentStr(x) : x \in ExplanationTexts}

ExplValues ==
  {ExplOf(JAbsent), ExplOf("null"), ExplOf("other")}
    \cup {ExplDict(c) : c \in ContentValues}

\* the JSON objects final_answer may return: explanation and visual_brief,
\* which the icon decision and the visualizer's arguments read together, in
\* every combination; visual_assets, which the backfill and the merge alone
\* touch, in every value; and the object with no key at all
SynthesisObjects(user_input) ==
  {Payload(QStr(user_input), e, vb, VAOf(JAbsent)) :
     e \in ExplValues, vb \in BriefValues}
    \cup {Payload(QStr(user_input), ExplDict(ContentStr(x)), VBOf(JAbsent), va) :
            x \in ExplanationTexts, va \in AssetsValues}
    \cup {Payload(QStr(user_input), ExplDict(ContentStr(<<"t", "w", "o">>)),
                   VBList(<< BriefItem(1), BriefItem(2) >>),
                   VADict(IconsList(<< PriorIcon >>)))}
    \cup {Payload(QOf(JAbsent), ExplOf(JAbsent), VBOf(JAbsent), VAOf(JAbsent))}

\* final_answer's forward: it raises, or returns text that is not JSON, JSON
\* that is not an object, or a JSON object
FinalAnswerResults(user_input) ==
  {RaisesJson}
    \cup {Returns(PlainText(x)) : x \in ExplanationTexts}
    \cup {Returns(JsonText(NonObject(b))) : b \in BOOLEAN}
    \cup {Returns(JsonText(o)) : o \in SynthesisObjects(user_input)}

\* ------------------------- Enhanced3Blue1BrownFinalAnswerTool.forward
\* The language model's reply proposes at most MaxReplyBrief items.
MaxReplyBrief == 4

\* line 79 (and line 73): visual_brief[:3]
BriefLimit == 3

\* line 74: [:40] of a concept and [:80] of a caption
ConceptMaxLen == 40
CaptionMaxLen == 80

\* t[:n]
Take(t, n) == SubSeq(t, 1, IF Len(t) < n THEN Len(t) ELSE n)

\* str.strip(chars)
StripOf(t, chars) ==
  IF \A k \in DOMAIN t : t[k] \in chars
    THEN << >>
    ELSE LET a == CHOOSE k \in DOMAIN t :
                    t[k] \notin chars /\ \A j \in 1..(k - 1) : t[j] \in chars
             b == CHOOSE k \in DOMAIN t :
                    t[k] \notin chars /\ \A j \in (k + 1)..Len(t) : t[j] \in chars
         IN  Slice(t, a, b)

\* str.splitlines() of a text with no line break at its end
RECURSIVE SplitLines(_)
SplitLines(t) ==
  IF t = << >> THEN << >>
  ELSE IF \E k \in DOMAIN t : t[k] = "\n"
    THEN LET c == CHOOSE k \in DOMAIN t :
                    t[k] = "\n" /\ \A j \in 1..(k - 1) : t[j] # "\n"
         IN  << Slice(t, 1, c - 1) >> \o SplitLines(Slice(t, c + 1, Len(t)))
    ELSE << t >>

\* line 72: ln.strip("-* ").strip() of the lines for which
\* ln.strip().startswith(("-", "*"))
BulletLines(raw) ==
  LET kept == SelectSeq(SplitLines(raw),
                        LAMBDA ln : Strip(ln) # << >> /\ Strip(ln)[1] \in {"-", "*"})
  IN  [k \in DOMAIN kept |-> Strip(StripOf(kept[k], {"-", "*", " "}))]

\* line 74: one visual_brief item of the fallback, ln.split(":")[0][:40] and
\* (":".join(ln.split(":")[1:]) or ln)[:80]
BulletItem(ln) ==
  IF \E k \in DOMAIN ln : ln[k] = ":"
    THEN LET c == CHOOSE k \in DOMAIN ln :
                    ln[k] = ":" /\ \A j \in 1..(k - 1) : ln[j] # ":"
             rest == Slice(ln, c + 1, Len(ln))
         IN  [concept |-> Take(Slice(ln, 1, c - 1), ConceptMaxLen),
              caption |-> Take(IF rest # << >> THEN rest ELSE ln, CaptionMaxLen)]
    ELSE [concept |-> Take(ln, ConceptMaxLen), caption |-> Take(ln, CaptionMaxLen)]

\* lines 58-74: the visual_brief read from the reply; an item that is not an
\* object (obj false) is left out, concept and caption are stripped
ReplyBrief(reply) ==
  IF reply.json
    THEN IF reply.value.visual_brief.t = "list"
           THEN LET kept == SelectSeq(reply.value.visual_brief.items,
                                      LAMBDA x : x.obj)
                IN  [k \in DOMAIN kept |->
                       [concept |-> Strip(kept[k].concept),
                        caption |-> Strip(kept[k].caption)]]
           ELSE << >>
    ELSE LET lines == Take(BulletLines(reply.raw), BriefLimit)
         IN  [k \in DOMAIN lines |-> BulletItem(lines[k])]

\* lines 60 and 70: explanation.content, or raw.split("\n\n")[0]
ReplyExplanation(reply) ==
  IF reply.json
    THEN reply.value.explanation.content.text
  ELSE IF Contains(reply.raw, <<"\n", "\n">>)
    THEN LET c == CHOOSE k \in DOMAIN reply.raw :
                    /\ OccursAt(reply.raw, <<"\n", "\n">>, k)
                    /\ \A j \in 1..(k - 1) : ~OccursAt(reply.raw, <<"\n", "\n">>, j)
         IN  Slice(reply.raw, 1, c - 1)
    ELSE reply.raw

\* the payload keeps every item the reply proposes
forward_KeepsAll(question, reply) ==
  Payload(QStr(question), ExplDict(ContentStr(ReplyExplanation(reply))),
          VBList(ReplyBrief(reply)), VADict(IconsList(<< >>)))

\* lines 76-82: the payload forward returns
forward(question, reply) ==
  Payload(QStr(question), ExplDict(ContentStr(ReplyExplanation(reply))),
          VBList(Take(ReplyBrief(reply), BriefLimit)),
          VADict(IconsList(<< >>)))

\* one element of generated_icons that is not an object
BadIcon == [t |-> "other", concept |-> << >>, filename |-> << >>]

\* the visualizer's JSON object: generated_icons absent, or a list
IconsReply(tag, items) == [t |-> "dict", generated_icons |-> [t |-> tag, items |-> items]]

\* lines 320-326: icons_payload; a reply that is not JSON or not an object
\* leaves it empty, an element without .get ends the loop with the entries
\* appended so far
IconParseFails(reply) ==
  \/ ~reply.json
  \/ reply.value.t # "dict"
  \/ \E k \in DOMAIN reply.value.generated_icons.items :
       reply.value.generated_icons.items[k].t # "dict"

icons_payload(reply) ==
  IF ~reply.json \/ reply.value.t # "dict"
    THEN << >>
    ELSE LET items == reply.value.generated_icons.items
             n == IF \E k \in DOMAIN items : items[k].t # "dict"
                    THEN (CHOOSE k \in DOMAIN items :
                            items[k].t # "dict"
                            /\ \A j \in 1..(k - 1) : items[j].t = "dict") - 1
                    ELSE Len(items)
         IN  [k \in 1..n |-> [concept |-> items[k].concept,
                              path |-> items[k].filename]]

\* the icons are added to those the payload holds
MergeIcons_Extend(payload, icons) ==
  [payload EXCEPT !.visual_assets.icons =
     IF @.t = "list" THEN IconsList(@.items \o icons) ELSE IconsList(icons)]

\* line 327
MergeIcons(payload, icons) ==
  [payload EXCEPT !.visual_assets.icons = IconsList(icons)]

\* lines 313-315 raise where explanation has no .get
IconArgsRaise(payload) == payload.explanation.t \in {"null", "other"}

\* lines 313-315: the arguments of the visualizer
IconArgs(payload, user_input) ==
  LET vb == payload.visual_brief
      content == IF payload.explanation.t = "dict"
                   THEN payload.explanation.content
                   ELSE ContentOf(JAbsent)
      vb_truthy == vb.t = "other" \/ (vb.t = "list" /\ Len(vb.items) > 0)
  IN  [concepts |-> IF vb_truthy
                      THEN [from |-> "visual_brief", brief |-> vb,
                            content |-> ContentOf(JAbsent)]
                      ELSE [from |-> "explanation", brief |-> VBOf(JAbsent),
                            content |-> content],
       style |-> "None",
       context |-> IF content.t \in {"str", "other"}
                     THEN [from |-> "explanation", content |-> content,
                           text |-> << >>]
                     ELSE [from |-> "user_input", content |-> ContentOf(JAbsent),
                           text |-> user_input]]

\* ------------------------------------------------------------ visualizer
\* icon_generation_tool.py, line 33: [c.strip() for c in concepts.split(",")
\* if c.strip()]
RECURSIVE SplitComma(_)
SplitComma(t) ==
  IF \E k \in DOMAIN t : t[k] = ","
    THEN LET c == CHOOSE k \in DOMAIN t :
                    t[k] = "," /\ \A j \in 1..(k - 1) : t[j] # ","
         IN  << Slice(t, 1, c - 1) >> \o SplitComma(Slice(t, c + 1, Len(t)))
    ELSE << t >>

HasText(c) == Strip(c) # << >>

CommaSeparated(t) ==
  LET kept == SelectSeq(SplitComma(t), HasText)
  IN  [k \in DOMAIN kept |-> Strip(kept[k])]

\* item.get("concept") is truthy
HasConcept(item) == item.concept # << >>

\* the JSON text of {"visual_brief": v} taken whole for one concept
OpaqueConcept == <<"{", "v", "}">>

\* _coerce_concepts raises where `concepts` is not a str: json.loads raises
\* TypeError, which is caught, and concepts.split then AttributeError
CoerceRaises(concepts) ==
  concepts.from = "explanation" /\ concepts.content.t \in {"null", "other"}

\* _coerce_concepts: the lists of concepts it may return. A visual_brief
\* that is a list gives the stripped concepts of its items that have one; a
\* truthy visual_brief that is not a list gives no concept (a str or a dict
\* is iterated and holds no dict) or the whole JSON text as one concept (a
\* number is not iterable, and the fallback splits the text); the
\* explanation text, which is not JSON, is split at its commas
_coerce_concepts(concepts) ==
  IF concepts.from = "visual_brief"
    THEN IF concepts.brief.t = "list"
           THEN LET kept == SelectSeq(concepts.brief.items, HasConcept)
                IN  { [k \in DOMAIN kept |-> Strip(kept[k].concept)] }
           ELSE { << >>, << OpaqueConcept >> }
    ELSE IF concepts.content.t = "str"
           THEN { CommaSeparated(concepts.content.text) }
           ELSE { << >> }

\* line 190: the characters kept for the file name
SafeChars == Letters \cup Digits \cup {" ", "-", "_"}

IsSafeChar(ch) == ch \in SafeChars

UnderscoreBlank(ch) == IF ch = " " THEN "_" ELSE ch

\* lines 190-191: f"icons/{safe.replace(' ', '_')}_icon_{idx}.png"
IconFilename(concept, idx) ==
  LET safe == RStrip(SelectSeq(concept, IsSafeChar), Whitespace)
  IN  <<"i", "c", "o", "n", "s", "/">>
        \o [k \in DOMAIN safe |-> UnderscoreBlank(safe[k])]
        \o <<"_", "i", "c", "o", "n", "_">> \o << DigitText[idx] >>
        \o <<".", "p", "n", "g">>

\* lines 194-199: one element of generated_icons
GeneratedIcon(concept, idx) ==
  [t |-> "dict", concept |-> concept, filename |-> IconFilename(concept, idx)]

\* lines 166-211: the reply for concept_list when the image requests of the
\* concepts at the positions `done` succeeded; a failed request is skipped
ForwardReply(concept_list, done) ==
  LET positions == SelectSeq([k \in DOMAIN concept_list |-> k],
                             LAMBDA k : k \in done)
  IN  IconsReply("list",
        [j \in DOMAIN positions |->
           GeneratedIcon(concept_list[positions[j]], positions[j])])

\* IconGenerationTool.forward: it raises where _coerce_concepts does, and
\* otherwise returns the icons of the image requests that succeeded, at most
\* MaxIcons of them
IconGenerationToolResults(args) ==
  IF CoerceRaises(args.concepts)
    THEN {RaisesJson}
    ELSE UNION {
           {Returns(JsonText(ForwardReply(cl, done))) :
              done \in {d \in SUBSET DOMAIN cl : Cardinality(d) <= MaxIcons}} :
           cl \in _coerce_concepts(args.concepts)}

\* a visualizer that fails: it raises, or returns text that is not JSON,
\* JSON that is not an object, an object without generated_icons, or a list
\* that holds a value without .get
FailingVisualizerResults ==
  {RaisesJson, Returns(PlainText(<<"o", "o", "p", "s">>)),
   Returns(JsonText(NonObject(TRUE))),
   Returns(JsonText(IconsReply(JAbsent, << >>))),
   Returns(JsonText(IconsReply("list",
     << GeneratedIcon(<<"s", "l", "o", "p", "e">>, 1), BadIcon >>)))}

\* line 316: what the registered icon_generation tool comes to
IconGenerationResults(args) ==
  IconGenerationToolResults(args) \cup FailingVisualizerResults

\* ------------------------------------------------------------ snippets
ToolNameText(tool) ==
  CASE tool = "ask_clarification" -> <<"a", "s", "k", "_", "c", "l", "a", "r", "i", "f", "i", "c", "a", "t", "i", "o", "n">>
    [] tool = "code_analysis"     -> <<"c", "o", "d", "e", "_", "a", "n", "a", "l", "y", "s", "i", "s">>
    [] tool = "sympy"             -> <<"s", "y", "m", "p", "y">>
    [] tool = "arxiv_search"      -> <<"a", "r", "x", "i", "v", "_", "s", "e", "a", "r", "c", "h">>
    [] tool = "final_answer"      -> <<"f", "i", "n", "a", "l", "_", "a", "n", "s", "w", "e", "r">>
    [] tool = "icon_generation"   -> <<"i", "c", "o", "n", "_", "g", "e", "n", "e", "r", "a", "t", "i", "o", "n">>

\* str(e)
ErrorText(exc) ==
  CASE exc = "ToolError"       -> <<"b", "o", "o", "m">>
    [] exc = "JSONDecodeError" -> <<"b", "a", "d", " ", "j", "s", "o", "n">>
    [] exc = "AttributeError"  -> <<"n", "o", " ", "a", "t", "t", "r", "i", "b", "u", "t", "e">>
    [] exc = "OSError"         -> <<"o", "s", " ", "e", "r", "r", "o", "r">>

\* f"[code_analysis]\n{out}", f"[sympy]\n{out}", f"[arxiv]\n{out}"
OutputTag(tool) ==
  CASE tool = "code_analysis" -> <<"[", "c", "o", "d", "e", "_", "a", "n", "a", "l", "y", "s", "i", "s", "]", "\n">>
    [] tool = "sympy"         -> <<"[", "s", "y", "m", "p", "y", "]", "\n">>
    [] tool = "arxiv_search"  -> <<"[", "a", "r", "x", "i", "v", "]", "\n">>

OutputSnippet(tool, out) == OutputTag(tool) \o out

\* the error snippet without the name of the step
ErrorSnippet_Unlabelled(tool, exc) == <<"[", "E", "R", "R", "O", "R", "]", " ">> \o ErrorText(exc)

\* f"[{p.tool} ERROR] {e}"
ErrorSnippet(tool, exc) ==
  <<"[">> \o ToolNameText(tool) \o <<" ", "E", "R", "R", "O", "R", "]", " ">> \o ErrorText(exc)

\* "\n\n".join(snippets)
RECURSIVE Join(_)
Join(snippets) ==
  IF snippets = << >> THEN << >>
  ELSE IF Len(snippets) = 1 THEN snippets[1]
  ELSE snippets[1] \o <<"\n", "\n">> \o Join(Tail(snippets))

\* the last snippet is left out of the context
context_blob_DropsLast(snippets) ==
  Strip(Join(SubSeq(snippets, 1, Len(snippets) - 1)))

\* line 283
context_blob(snippets) == Strip(Join(snippets))

\* the bullet lines of a reply that is not JSON
ReplyBullets ==
  << <<"-", " ", "s", "l", "o", "p", "e", ":", " ", "c", "a", "p">>,
     <<"*", " ", " ", "a", "r", "e", "a">>,
     <<"-", "v", "e", "c", "t", "o", "r", ":", "v", ":", "w">>,
     <<" ", "-", " ", "l", "i", "m", "i", "t">>,
     <<"-", " ", "c", "u", "r", "v", "e">>,
     <<"*", " ", "a", "x", "i", "s", ":", " ", "x">> >>

\* lines 51-52: the replies of the language model, stripped: a JSON object
\* whose visual_brief is absent, null, not a list, or a list (one of them
\* with an item that is not an object), and prose followed by bullet lines
ModelReplies ==
  LET item(k) == [obj |-> TRUE, concept |-> ConceptNames[k],
                  caption |-> <<" ", "c", "a", "p">>]
      scalar == [obj |-> FALSE, concept |-> << >>, caption |-> << >>]
  IN  {JsonText([t |-> "dict", explanation |-> ExplDict(ContentStr(x)),
                 visual_brief |-> vb]) :
         x \in ExplanationTexts,
         vb \in {VBOf(JAbsent), VBOf("null"), VBOf("other"),
                 VBList(<< item(1), scalar, item(2) >>)}
                \cup {VBList([k \in 1..n |-> item(k)]) : n \in 0..MaxReplyBrief}}
        \cup {PlainText(Join(<< x >> \o SubSeq(ReplyBullets, 1, n))) :
                x \in ExplanationTexts, n \in 0..MaxReplyBrief}

\* final_answer as the repository implements it: the model call raises, or
\* forward returns the payload as JSON text
EnhancedFinalAnswerResults(user_input) ==
  {RaisesJson} \cup {Returns(JsonText(forward(user_input, m))) : m \in ModelReplies}

\* --------------------------------------------------------------- the run
ToolNames ==
  {"ask_clarification", "code_analysis", "sympy", "arxiv_search",
   "final_answer", "icon_generation"}

\* the requests run is called with
Requests ==
  { <<"2", "+", "3", "?">>,
    <<"P", "l", "e", "a", "s", "e", " ", "a", "n", "a", "l", "y", "z", "e", " ", "t", "h", "e", " ", "c", "o", "d", "e", " ", "f", "i", "l", "e", " ", "'", "a", ".", "p", "y", "'">>,
    <<"e", "x", "p", "l", "a", "i", "n", " ", "q", "u", "a", "n", "t", "u", "m", " ", "e", "n", "t", "a", "n", "g", "l", "e", "m", "e", "n", "t", " ", "w", "i", "t", "h", " ", "a", " ", "d", "i", "a", "g", "r", "a", "m">>,
    <<"?", "?">>,
    <<"s", "o", "l", "v", "e", " ", "x", "+", "1", "=", "0", " ", "p", "r", "o", "o", "f">> }

\* the registries an agent is constructed with (__init__, tool_map): every
\* tool, or every tool but one
ToolMaps == {ToolNames} \cup {ToolNames \ {x} : x \in ToolNames}

\* output/latest_explanation.json: absent, or holding a complete
\* serialization, or cut to nothing by open(.., "w"), or partly written
NoRecord == [state |-> "absent", content |-> None]
Complete(payload) == [state |-> "complete", content |-> payload]
Truncated == [state |-> "empty", content |-> None]
Partial(payload) == [state |-> "partial", content |-> payload]

\* the record a previous run left
PreviousRecord ==
  Complete(Payload(QStr(<<"e", "a", "r", "l", "i", "e", "r">>), ExplDict(ContentStr(<<"t", "w", "o">>)),
                   VBList(<< >>), VADict(IconsList(<< >>))))

\* result_str before final_answer has returned
NoResult == [json |-> FALSE, value |-> None, raw |-> <<"-">>]

\* what run comes to
NotReturned == [kind |-> "none", value |-> None]
ReturnedJson(payload) == [kind |-> "json", value |-> payload]
ReturnedUnknownTool == [kind |-> "unknown_tool", value |-> None]
RaisedToCaller == [kind |-> "raised", value |-> None]

VARIABLES
  user_input,                 \* the request text
  tool_map,                   \* the names of the registered tools
  record,                     \* output/latest_explanation.json
  pc,                         \* where run stands
  plan,                       \* the plan of this run
  i,                          \* the position in plan of the step at hand
  combined_result_snippets,
  final_payload,
  ret,                        \* what run returned
  calls,                      \* the forward calls made, in order
  writes,                     \* the opens of the record for writing, in order
  decisions,                  \* the icon decisions taken, in order
  merge,                      \* "none", or how the visualizer's reply was read
  icons_json,                 \* the text icon_generation returned
  result_str,                 \* the text final_answer returned
  raised,                     \* the tools whose forward raised
  followup,                   \* the text ask_clarification returned
  plan_again                  \* the plan a later call of _build_plan returned

\* FixedMultiToolAgent.run (main.py), the model-driven loop; it shares
\* user_input, tool_map, record, pc, ret, calls and followup with run above
VARIABLES
  original_question,          \* the question, with the typed answers added
  last_output,                \* None, or the output of the last tool
  tool_execution_history,     \* the tools dispatched, in order
  tool_called                 \* self.tool_called

legacyVars ==
  <<original_question, last_output, tool_execution_history, tool_called>>

\* IconGenerationTool._post_image (icon_generation_tool.py)
VARIABLES
  post_pc,                    \* "idle", "posting", "returned" or "raised"
  retries,                    \* the argument retries
  responses                   \* the responses received, in order

postVars == <<post_pc, retries, responses>>

\* IconGenerationTool.forward (icon_generation_tool.py)
VARIABLES
  fwd_pc,                     \* "idle", "loop" or "returned"
  concept_list,               \* _coerce_concepts(concepts)
  attempted,                  \* the concepts _post_image was called for
  generated_icons,
  paths,
  fwd_ret                     \* the object forward returns as JSON

forwardVars ==
  <<fwd_pc, concept_list, attempted, generated_icons, paths, fwd_ret>>

\* gradio_stream (gradio_app.py), one entry per call
VARIABLES
  sys_stdout,                 \* sys.stdout: "original", or the call whose catcher it is
  old_stdout,                 \* each call's old_stdout
  q,                          \* each call's queue: all that was put, in order
  taken,                      \* how many items each generator has got from its queue
  yielded,                    \* the values each generator has yielded, in order
  g_pc,                       \* where each generator stands
  w_pc,                       \* where each worker stands
  to_print                    \* the chunks each worker has still to print

streamVars ==
  <<sys_stdout, old_stdout, q, taken, yielded, g_pc, w_pc, to_print>>

\* the variables GuardrailedMultiToolAgent.run leaves alone
others == <<legacyVars, postVars, forwardVars, streamVars>>

\* the variables the model-driven loop leaves alone
notLegacy ==
  <<plan, i, combined_result_snippets, final_payload, writes, decisions,
    merge, icons_json, result_str, raised, plan_again,
    postVars, forwardVars, streamVars>>

\* the variables of the two agents
agentVars ==
  <<user_input, tool_map, record, pc, plan, i, combined_result_snippets,
    final_payload, ret, calls, writes, decisions, merge, icons_json,
    result_str, raised, followup, plan_again, legacyVars>>

vars ==
  <<user_input, tool_map, record, pc, plan, i, combined_result_snippets,
    final_payload, ret, calls, writes, decisions, merge, icons_json,
    result_str, raised, followup, plan_again, others>>

\* At most MaxStreams calls of gradio_stream are under way together.
MaxStreams == 2

StreamCalls == 1..MaxStreams

\* last_output = None (line 66)
NoLastOutput == [none |-> TRUE, text |-> << >>]

\* before any of the other programs has started
OthersInit ==
  /\ original_question = << >>
  /\ last_output = NoLastOutput
  /\ tool_execution_history = << >>
  /\ tool_called = {}
  /\ post_pc = "idle"
  /\ retries = 0
  /\ responses = << >>
  /\ fwd_pc = "idle"
  /\ concept_list = << >>
  /\ attempted = << >>
  /\ generated_icons = << >>
  /\ paths = << >>
  /\ fwd_ret = None
  /\ sys_stdout = "original"
  /\ old_stdout = [c \in StreamCalls |-> "unset"]
  /\ q = [c \in StreamCalls |-> << >>]
  /\ taken = [c \in StreamCalls |-> 0]
  /\ yielded = [c \in StreamCalls |-> << >>]
  /\ g_pc = [c \in StreamCalls |-> "created"]
  /\ w_pc = [c \in StreamCalls |-> "unstarted"]
  /\ to_print = [c \in StreamCalls |-> << >>]

Init ==
  /\ user_input \in Requests
  /\ tool_map \in ToolMaps
  /\ record \in {NoRecord, PreviousRecord}
  /\ pc = "start"
  /\ plan = << >>
  /\ i = 1
  /\ combined_result_snippets = << >>
  /\ final_payload = None
  /\ ret = NotReturned
  /\ calls = << >>
  /\ writes = << >>
  /\ decisions = << >>
  /\ merge = "none"
  /\ icons_json = NoResult
  /\ result_str = NoResult
  /\ raised = {}
  /\ followup = << >>
  /\ plan_again = << >>
  /\ OthersInit

Call(tool, args) == [tool |-> tool, args |-> args]

\* line 247
BuildPlan ==
  /\ pc = "start"
  /\ plan' = _build_plan(user_input)
  /\ pc' = "loop"
  /\ UNCHANGED <<plan_again, followup, others, user_input, tool_map, record, i, combined_result_snippets,
                 final_payload, ret, calls, writes, decisions, merge, icons_json,
                 result_str, raised>>

\* any step of the plan may be taken, whatever the position
AtStep_AnyOrder(tool) ==
  /\ pc = "loop"
  /\ i <= Len(plan)
  /\ \E k \in DOMAIN plan : plan[k].tool = tool

\* lines 249-251: the step at hand names this tool
AtStep(tool) ==
  /\ pc = "loop"
  /\ i <= Len(plan)
  /\ plan[i].tool = tool

\* the message is noted and the loop goes on with the next step
UnknownTool_GoesOn ==
  /\ pc = "loop"
  /\ i <= Len(plan)
  /\ plan[i].tool \notin tool_map
  /\ ret' = ReturnedUnknownTool
  /\ pc' = "loop"
  /\ i' = i + 1
  /\ UNCHANGED <<plan_again, followup, others, user_input, tool_map, record, plan, combined_result_snippets,
                 final_payload, calls, writes, decisions, merge, icons_json, result_str,
                 raised>>

\* lines 253-255
UnknownTool ==
  /\ pc = "loop"
  /\ i <= Len(plan)
  /\ plan[i].tool \notin tool_map
  /\ ret' = ReturnedUnknownTool
  /\ pc' = "done"
  /\ UNCHANGED <<plan_again, followup, others, user_input, tool_map, record, plan, i, combined_result_snippets,
                 final_payload, calls, writes, decisions, merge, icons_json, result_str,
                 raised>>

\* lines 333-335: the step at hand failed with exc
Fail(exc) ==
  IF ExceptCatches(exc)
    THEN /\ combined_result_snippets' =
              Append(combined_result_snippets, ErrorSnippet(plan[i].tool, exc))
         /\ i' = i + 1
         /\ pc' = "loop"
         /\ ret' = ret
    ELSE /\ pc' = "done"
         /\ ret' = RaisedToCaller
         /\ UNCHANGED <<combined_result_snippets, i>>

\* the step after the one at hand is passed over
Continue_SkipNext ==
  /\ i' = i + 2
  /\ pc' = "loop"
  /\ UNCHANGED <<combined_result_snippets, ret>>

\* `continue`: on to the next step of the plan
Continue ==
  /\ i' = i + 1
  /\ pc' = "loop"
  /\ UNCHANGED <<combined_result_snippets, ret>>

\* lines 258-261
AskClarification ==
  /\ AtStep("ask_clarification")
  /\ "ask_clarification" \in tool_map
  /\ calls' = Append(calls, Call("ask_clarification", plan[i].args))
  /\ \E r \in ClarificationResults :
       IF r.raised
         THEN /\ Fail("ToolError")
              /\ raised' = raised \cup {"ask_clarification"}
              /\ UNCHANGED followup
         ELSE /\ followup' = r.text
              /\ Continue
              /\ UNCHANGED raised
  /\ UNCHANGED <<plan_again, others, user_input, tool_map, record, plan, final_payload, writes,
                 decisions, merge, icons_json, result_str>>

\* a step that raised leaves nothing in the context
AnalysisStep_Silent(tool) ==
  /\ AtStep(tool)
  /\ tool \in tool_map
  /\ calls' = Append(calls, Call(tool, plan[i].args))
  /\ \E r \in ToolResults :
       /\ combined_result_snippets' =
            IF r.raised THEN combined_result_snippets
            ELSE Append(combined_result_snippets, OutputSnippet(tool, r.text))
       /\ raised' = IF r.raised THEN raised \cup {tool} ELSE raised
       /\ i' = i + 1
       /\ pc' = "loop"
       /\ UNCHANGED ret
  /\ UNCHANGED <<plan_again, followup, others, user_input, tool_map, record, plan, final_payload, writes,
                 decisions, merge, icons_json, result_str>>

\* lines 263-279: code_analysis, sympy, arxiv_search
AnalysisStep(tool) ==
  /\ AtStep(tool)
  /\ tool \in tool_map
  /\ calls' = Append(calls, Call(tool, plan[i].args))
  /\ \E r \in ToolResults :
       IF r.raised
         THEN Fail("ToolError") /\ raised' = raised \cup {tool}
         ELSE /\ combined_result_snippets' =
                   Append(combined_result_snippets, OutputSnippet(tool, r.text))
              /\ i' = i + 1
              /\ pc' = "loop"
              /\ UNCHANGED <<ret, raised>>
  /\ UNCHANGED <<plan_again, followup, others, user_input, tool_map, record, plan, final_payload, writes,
                 decisions, merge, icons_json, result_str>>

CodeAnalysis == AnalysisStep("code_analysis")

Sympy == AnalysisStep("sympy")

ArxivSearch == AnalysisStep("arxiv_search")

\* lines 281-296: final_answer's forward, os.makedirs, json.loads and the
\* backfill of the missing keys
Synthesize(results) ==
  /\ AtStep("final_answer")
  /\ "final_answer" \in tool_map
  /\ calls' = Append(calls, Call("final_answer",
                [question |-> user_input,
                 result |-> context_blob(combined_result_snippets)]))
  /\ \E r \in results, makedirs_ok \in BOOLEAN :
       IF r.raised
         THEN /\ Fail("ToolError")
              /\ raised' = raised \cup {"final_answer"}
              /\ UNCHANGED <<final_payload, result_str>>
       ELSE IF ~makedirs_ok
         THEN /\ Fail("OSError")
              /\ result_str' = r.text
              /\ UNCHANGED <<final_payload, raised>>
       ELSE LET parsed == ParsePayload(user_input, r.text)
            IN  /\ result_str' = r.text
                /\ final_payload' = Backfill(parsed)
                /\ UNCHANGED raised
                /\ IF BackfillRaises(parsed)
                     THEN Fail("AttributeError")
                     ELSE /\ pc' = "open_synthesis"
                          /\ UNCHANGED <<i, combined_result_snippets, ret>>
  /\ UNCHANGED <<plan_again, followup, others, user_input, tool_map, record, plan, writes, decisions, merge, icons_json>>

\* final_answer is whatever tool the caller registered under that name
FinalAnswer == Synthesize(FinalAnswerResults(user_input))

\* final_answer is Enhanced3Blue1BrownFinalAnswerTool
EnhancedFinalAnswer == Synthesize(EnhancedFinalAnswerResults(user_input))

\* the record is opened to be added to: open(.., "a")
OpenRecord_Append(at, next) ==
  /\ pc = at
  /\ \E ok \in BOOLEAN :
       IF ok
         THEN /\ record' = IF record.state = "absent"
                              THEN [state |-> "empty", content |-> None]
                              ELSE record
              /\ writes' = Append(writes, at)
              /\ pc' = next
              /\ UNCHANGED <<i, combined_result_snippets, ret>>
         ELSE /\ Fail("OSError")
              /\ UNCHANGED <<record, writes>>
  /\ UNCHANGED <<plan_again, followup, others, user_input, tool_map, plan,
                 final_payload, calls, decisions, merge, icons_json,
                 result_str, raised>>

\* a failed open removes the record
OpenRecord_Unlink(at, next) ==
  /\ pc = at
  /\ \E ok \in BOOLEAN :
       IF ok
         THEN /\ record' = Truncated
              /\ writes' = Append(writes, at)
              /\ pc' = next
              /\ UNCHANGED <<i, combined_result_snippets, ret>>
         ELSE /\ Fail("OSError")
              /\ record' = NoRecord
              /\ UNCHANGED writes
  /\ UNCHANGED <<plan_again, followup, others, user_input, tool_map, plan,
                 final_payload, calls, decisions, merge, icons_json,
                 result_str, raised>>

\* lines 297 and 328: open("output/latest_explanation.json", "w") cuts the
\* record to nothing, or fails and leaves it
OpenRecord(at, next) ==
  /\ pc = at
  /\ \E ok \in BOOLEAN :
       IF ok
         THEN /\ record' = Truncated
              /\ writes' = Append(writes, at)
              /\ pc' = next
              /\ UNCHANGED <<i, combined_result_snippets, ret>>
         ELSE /\ Fail("OSError")
              /\ UNCHANGED <<record, writes>>
  /\ UNCHANGED <<plan_again, followup, others, user_input, tool_map, plan, final_payload, calls, decisions,
                 merge, icons_json, result_str, raised>>

\* lines 298 and 329: f.write(json.dumps(final_payload, ..)) and the close of
\* the file; a failed write leaves the record empty or partly written
WriteOutcomes == {"written", "failed_empty", "failed_partial"}

\* lines 298 and 329: f.write adds the serialization to what the opened
\* file holds
Written(rec, payload) ==
  IF rec.state = "empty"
    THEN Complete(payload)
    ELSE [state |-> "appended", content |-> payload]

OpenSynthesis == OpenRecord("open_synthesis", "write_synthesis")

WriteSynthesis ==
  /\ pc = "write_synthesis"
  /\ \E w \in WriteOutcomes :
       IF w = "written"
         THEN /\ record' = Written(record, final_payload)
              /\ pc' = "decide"
              /\ UNCHANGED <<i, combined_result_snippets, ret>>
         ELSE /\ record' = IF w = "failed_empty" THEN Truncated
                                                 ELSE Partial(final_payload)
              /\ Fail("OSError")
  /\ UNCHANGED <<plan_again, followup, others, user_input, tool_map, plan, final_payload, calls, writes,
                 decisions, merge, icons_json, result_str, raised>>

\* the request's own wish for visuals is ignored
should_icons_FinalOnly(text, payload) == _wants_icons_from_final(payload)

\* lines 303-311: the icon decision
should_icons(text, payload) ==
  _wants_icons_from_user(text) \/ _wants_icons_from_final(payload)

DecideIcons ==
  /\ pc = "decide"
  /\ IF WantsFinalRaises(final_payload)
       THEN Fail("AttributeError") /\ UNCHANGED decisions
       ELSE /\ decisions' = Append(decisions, should_icons(user_input, final_payload))
            /\ IF should_icons(user_input, final_payload)
                  /\ "icon_generation" \in tool_map
                 THEN pc' = "icons" /\ UNCHANGED <<i, combined_result_snippets, ret>>
                 ELSE Continue
  /\ UNCHANGED <<plan_again, followup, others, user_input, tool_map, record, plan, final_payload, calls,
                 writes, merge, icons_json, result_str, raised>>

\* lines 312-327: the visualizer's forward and the merge of its icons
IconGeneration ==
  /\ pc = "icons"
  /\ IF IconArgsRaise(final_payload)
       THEN /\ Fail("AttributeError")
            /\ UNCHANGED <<calls, final_payload, merge, icons_json, raised>>
       ELSE /\ calls' = Append(calls, Call("icon_generation",
                           IconArgs(final_payload, user_input)))
            /\ \E r \in IconGenerationResults(IconArgs(final_payload, user_input)) :
                 IF r.raised
                   THEN /\ Fail("ToolError")
                        /\ raised' = raised \cup {"icon_generation"}
                        /\ UNCHANGED <<final_payload, merge, icons_json>>
                   ELSE /\ final_payload' =
                             MergeIcons(final_payload, icons_payload(r.text))
                        /\ icons_json' = r.text
                        /\ merge' = IF IconParseFails(r.text) THEN "unparsed"
                                                              ELSE "merged"
                        /\ pc' = "open_merge"
                        /\ UNCHANGED <<i, combined_result_snippets, ret, raised>>
  /\ UNCHANGED <<plan_again, followup, others, user_input, tool_map, record, plan, writes, decisions,
                 result_str>>

OpenMerge == OpenRecord("open_merge", "write_merge")

WriteMerge ==
  /\ pc = "write_merge"
  /\ \E w \in WriteOutcomes :
       IF w = "written"
         THEN /\ record' = Written(record, final_payload)
              /\ Continue
         ELSE /\ record' = IF w = "failed_empty" THEN Truncated
                                                 ELSE Partial(final_payload)
              /\ Fail("OSError")
  /\ UNCHANGED <<plan_again, followup, others, user_input, tool_map, plan, final_payload, calls, writes,
                 decisions, merge, icons_json, result_str, raised>>

\* lines 337-342
ReturnValue(payload, text) ==
  IF Truthy(payload) THEN payload ELSE FallbackPayload(text)

Return ==
  /\ pc = "loop"
  /\ i > Len(plan)
  /\ ret' = ReturnedJson(ReturnValue(final_payload, user_input))
  /\ pc' = "done"
  /\ UNCHANGED <<plan_again, followup, others, user_input, tool_map, record, plan, i, combined_result_snippets,
                 final_payload, calls, writes, decisions, merge, icons_json, result_str,
                 raised>>

Next ==
  \/ BuildPlan
  \/ UnknownTool
  \/ AskClarification
  \/ CodeAnalysis
  \/ Sympy
  \/ ArxivSearch
  \/ FinalAnswer
  \/ OpenSynthesis
  \/ WriteSynthesis
  \/ DecideIcons
  \/ IconGeneration
  \/ OpenMerge
  \/ WriteMerge
  \/ Return

Spec == Init /\ [][Next]_vars

\* ------------------------------------- the run with the repository's tool
NextEnhanced ==
  \/ BuildPlan
  \/ UnknownTool
  \/ AskClarification
  \/ CodeAnalysis
  \/ Sympy
  \/ ArxivSearch
  \/ EnhancedFinalAnswer
  \/ OpenSynthesis
  \/ WriteSynthesis
  \/ DecideIcons
  \/ IconGeneration
  \/ OpenMerge
  \/ WriteMerge
  \/ Return

SpecEnhanced == Init /\ [][NextEnhanced]_vars

\* ------------------------------------- FixedMultiToolAgent.run (main.py)
\* The loop is followed for at most MaxLegacySteps dispatched tools.
MaxLegacySteps == 3

\* lines 107-111: the tools a repeated request of which is replaced
ResearchTools == {"arxiv_search", "sympy", "code_analysis"}

\* lines 105-114: the tool dispatched when the plan asks for tool_name
DispatchedTool(tool_name) ==
  IF /\ ~last_output.none /\ last_output.text # << >>
     /\ tool_name \in ResearchTools
     /\ tool_name \in tool_called
    THEN "final_answer"
    ELSE tool_name

\* lines 243-250: last_output after the tool raised
AfterError(tool_name) ==
  [none |-> FALSE,
   text |-> IF last_output.none
              THEN <<"E", "r", "r", "o", "r", " ", "e", "x", "e", "c", "u", "t", "i", "n", "g", " ">>
                     \o ToolNameText(tool_name) \o <<":", " ">> \o ErrorText("ToolError")
              ELSE last_output.text
                     \o <<"\n", "\n", "E", "r", "r", "o", "r", " ", "i", "n", " ">>
                     \o ToolNameText(tool_name) \o <<":", " ">> \o ErrorText("ToolError")]

\* lines 63-67
LegacyStart ==
  /\ pc = "start"
  /\ pc' = "plan"
  /\ original_question' = user_input
  /\ last_output' = NoLastOutput
  /\ tool_execution_history' = << >>
  /\ tool_called' = {}
  /\ UNCHANGED <<user_input, tool_map, record, ret, calls, followup, notLegacy>>

\* lines 82-100: the model call raises, the plan holds no tool tag, or the
\* tool it names is not registered: run returns a message
LegacyReturnsMessage ==
  /\ pc = "plan"
  /\ \E why \in {"no_plan", "no_tool_tag", "unknown_tool"} :
       ret' = [kind |-> why, value |-> None]
  /\ pc' = "done"
  /\ UNCHANGED <<user_input, tool_map, record, calls, followup, notLegacy,
                 legacyVars>>

\* lines 116-118: the dispatch of tool_name
Dispatch(tool_name) ==
  /\ pc = "plan"
  /\ tool_name \in tool_map
  /\ Len(tool_execution_history) < MaxLegacySteps
  /\ tool_execution_history' = Append(tool_execution_history, tool_name)
  /\ tool_called' = tool_called \cup {tool_name}

\* lines 122-129: ask_clarification; the answer typed at the prompt is added
\* to the question, and input() may raise
LegacyClarification ==
  /\ Dispatch("ask_clarification")
  /\ calls' = Append(calls, Call("ask_clarification", original_question))
  /\ \E r \in ClarificationResults, typed \in BOOLEAN :
       IF r.raised
         THEN /\ last_output' = AfterError("ask_clarification")
              /\ UNCHANGED <<original_question, followup>>
         ELSE /\ followup' = r.text
              /\ IF r.text # << >> /\ ~typed
                   THEN /\ last_output' = AfterError("ask_clarification")
                        /\ UNCHANGED original_question
                   ELSE /\ last_output' = NoLastOutput
                        /\ original_question' =
                             IF r.text # << >>
                               THEN original_question \o <<" ", "y">>
                               ELSE original_question
  /\ pc' = "plan"
  /\ UNCHANGED <<user_input, tool_map, record, ret, notLegacy>>

\* lines 131-200: sympy, arxiv_search, code_analysis and icon_generation;
\* code_analysis returns a message when its arguments cannot be read
LegacyTool ==
  \E asked \in ResearchTools \cup {"icon_generation"}, readable \in BOOLEAN :
    LET tool_name == DispatchedTool(asked)
    IN  /\ tool_name # "final_answer"
        /\ Dispatch(tool_name)
        /\ IF tool_name = "code_analysis" /\ ~readable
             THEN /\ ret' = [kind |-> "invalid_format", value |-> None]
                  /\ pc' = "done"
                  /\ UNCHANGED <<calls, last_output>>
             ELSE /\ calls' = Append(calls, Call(tool_name, original_question))
                  /\ \E r \in {Raises, Returns(<< >>), Returns(<<"o", "k">>)} :
                       last_output' = IF r.raised THEN AfterError(tool_name)
                                      ELSE [none |-> FALSE, text |-> r.text]
                  /\ pc' = "plan"
                  /\ UNCHANGED ret
        /\ UNCHANGED <<user_input, tool_map, record, followup, notLegacy,
                       original_question>>

\* lines 202-236: final_answer, asked for or put in the place of a repeated
\* research tool; its result is saved, a failure to save is only printed
\* (the branch of lines 238-239 is not reached with the six tools)
LegacyFinalAnswer ==
  \E asked \in ResearchTools \cup {"final_answer"} :
    /\ DispatchedTool(asked) = "final_answer"
    /\ Dispatch("final_answer")
    /\ calls' = Append(calls, Call("final_answer", original_question))
    /\ \E r \in {RaisesJson, Returns(PlainText(<<"t", "w", "o">>)),
                 Returns(JsonText(FallbackPayload(original_question)))},
          saved \in {"written", "not_opened", "cut"} :
         IF r.raised
           THEN /\ last_output' = AfterError("final_answer")
                /\ pc' = "plan"
                /\ UNCHANGED <<record, ret>>
           ELSE /\ record' =
                     CASE saved = "written" ->
                            Complete(IF r.text.json THEN r.text.value ELSE r.text)
                       [] saved = "cut" -> Truncated
                       [] saved = "not_opened" -> record
                /\ ret' = [kind |-> "result", value |-> r.text]
                /\ pc' = "done"
                /\ UNCHANGED last_output
    /\ UNCHANGED <<user_input, tool_map, followup, notLegacy, original_question>>

NextLegacy ==
  \/ LegacyStart
  \/ LegacyReturnsMessage
  \/ LegacyClarification
  \/ LegacyTool
  \/ LegacyFinalAnswer

\* one request, no record yet
InitLegacy ==
  /\ Init
  /\ user_input = <<"2", "+", "3", "?">>
  /\ record = NoRecord

SpecLegacy == InitLegacy /\ [][NextLegacy]_vars

\* ------------------------------------------ IconGenerationTool._post_image
\* _post_image is called with at most MaxRetries for retries (its default, 3,
\* is one of the values).
MaxRetries == 4

\* the status codes the service answers with: success, the two that are
\* tried again, 401, and one more for every other error
StatusCodes == {200, 429, 503, 401, 500}

\* requests.post raised (line 118): the request has no response
NoResponse == [status |-> 0, image |-> FALSE]

\* what one request gives: a response, `image` telling whether its
\* content-type header starts with "image/", or no response
PostOutcomes ==
  [status : StatusCodes, image : BOOLEAN] \cup {NoResponse}

\* any response that is not a success is tried again
AfterResponse_RetryAll(resp) ==
  IF resp = NoResponse THEN "raised"
  ELSE IF resp.status = 200 /\ resp.image THEN "returned"
  ELSE "posting"

\* lines 118-136: where the call stands after one request
AfterResponse(resp) ==
  IF resp = NoResponse THEN "raised"
  ELSE IF resp.status = 200 /\ resp.image THEN "returned"
  ELSE IF resp.status \in {429, 503} THEN "posting"
  ELSE "raised"

\* lines 109-115: the call, up to the loop
PostStart ==
  /\ post_pc = "idle"
  /\ post_pc' = "posting"
  /\ retries' \in 0..MaxRetries
  /\ responses' = << >>
  /\ UNCHANGED <<agentVars, forwardVars, streamVars>>

\* lines 117-136: one turn of the loop, for attempt = Len(responses) + 1
PostRequest ==
  /\ post_pc = "posting"
  /\ Len(responses) < retries
  /\ \E resp \in PostOutcomes :
       /\ responses' = Append(responses, resp)
       /\ post_pc' = AfterResponse(resp)
  /\ UNCHANGED <<retries, agentVars, forwardVars, streamVars>>

\* line 137: range(1, retries + 1) is used up
PostGivesUp ==
  /\ post_pc = "posting"
  /\ Len(responses) >= retries
  /\ post_pc' = "raised"
  /\ UNCHANGED <<retries, responses, agentVars, forwardVars, streamVars>>

NextPost ==
  \/ PostStart
  \/ PostRequest
  \/ PostGivesUp

\* the start of one call of a method of IconGenerationTool or of the
\* streaming front end: the agents do not run
InitPost ==
  /\ Init
  /\ user_input = <<"2", "+", "3", "?">>
  /\ tool_map = ToolNames
  /\ record = NoRecord

\* requests.post has a timeout and time.sleep ends: each step of the call
\* is taken
SpecPost == InitPost /\ [][NextPost]_vars /\ WF_vars(NextPost)

\* ---------------------------------------------- IconGenerationTool.forward
\* forward is called for a visual_brief of at most MaxConcepts items.
MaxConcepts == 5

\* the `concepts` arguments: a visual_brief list of one to MaxConcepts
\* items, one with an item that has no concept, a visual_brief that is no
\* list, comma-separated text (with a concept twice, with no concept at
\* all), and a value that is no str
ForwardConcepts ==
  LET brief(items) == [from |-> "visual_brief", brief |-> VBList(items),
                       content |-> ContentOf(JAbsent)]
      text(t) == [from |-> "explanation", brief |-> VBOf(JAbsent),
                  content |-> ContentStr(t)]
  IN  {brief([k \in 1..n |-> BriefItem(k)]) : n \in 1..MaxConcepts}
        \cup {brief(<< BriefItem(3), NoConceptItem, BriefItem(1) >>),
              [from |-> "visual_brief", brief |-> VBOf("other"),
               content |-> ContentOf(JAbsent)],
              text(<<"a", "x", "i", "s", ",", " ", "a", "x", "i", "s">>),
              text(<<" ", ",", " ">>),
              [from |-> "explanation", brief |-> VBOf(JAbsent),
               content |-> ContentOf("null")]}

\* how the try block of lines 185-201 ends for one concept: the icon is
\* saved, or _post_image, Image.open or img.save raises
ConceptOutcomes == {"saved", "post_raises", "open_raises", "save_raises"}

\* lines 161-164 and 206-211: the object returned as JSON
ForwardResult(icons, icon_paths) ==
  [generated_icons |-> icons, icon_paths |-> icon_paths,
   total_generated |-> Len(icons)]

\* the path is recorded before the image is saved
PathsAfter_Always(outcome, icon_paths, filename) == Append(icon_paths, filename)

\* lines 185-204: paths after one concept; line 200 is reached only when
\* nothing before it raised
PathsAfter(outcome, icon_paths, filename) ==
  IF outcome = "saved" THEN Append(icon_paths, filename) ELSE icon_paths

\* lines 185-204: generated_icons after one concept
IconsAfter(outcome, icons, concept, idx) ==
  IF outcome = "saved" THEN Append(icons, GeneratedIcon(concept, idx)) ELSE icons

\* lines 159-167: _coerce_concepts raises, or there is no concept and the
\* empty result is returned, or the loop is entered
ForwardStart ==
  /\ fwd_pc = "idle"
  /\ \E concepts \in ForwardConcepts :
       IF CoerceRaises(concepts)
         THEN /\ fwd_pc' = "raised"
              /\ UNCHANGED <<concept_list, fwd_ret>>
         ELSE \E cl \in _coerce_concepts(concepts) :
                /\ concept_list' = cl
                /\ fwd_pc' = IF cl = << >> THEN "returned" ELSE "loop"
                /\ fwd_ret' = IF cl = << >>
                                THEN ForwardResult(<< >>, << >>)
                                ELSE fwd_ret
  /\ attempted' = << >>
  /\ generated_icons' = << >>
  /\ paths' = << >>
  /\ UNCHANGED <<agentVars, postVars, streamVars>>

\* lines 169-204: one turn of the loop
ForwardConcept ==
  /\ fwd_pc = "loop"
  /\ Len(attempted) < Len(concept_list)
  /\ LET idx == Len(attempted) + 1
         concept == concept_list[idx]
     IN  /\ attempted' = Append(attempted, concept)
         /\ \E outcome \in ConceptOutcomes :
              /\ generated_icons' =
                   IconsAfter(outcome, generated_icons, concept, idx)
              /\ paths' = PathsAfter(outcome, paths, IconFilename(concept, idx))
  /\ UNCHANGED <<fwd_pc, concept_list, fwd_ret, agentVars, postVars, streamVars>>

\* lines 206-211
ForwardReturn ==
  /\ fwd_pc = "loop"
  /\ Len(attempted) = Len(concept_list)
  /\ fwd_ret' = ForwardResult(generated_icons, paths)
  /\ fwd_pc' = "returned"
  /\ UNCHANGED <<concept_list, attempted, generated_icons, paths,
                 agentVars, postVars, streamVars>>

NextForward ==
  \/ ForwardStart
  \/ ForwardConcept
  \/ ForwardReturn

SpecForward == InitPost /\ [][NextForward]_vars

\* ------------------------------------------------------------ gradio_stream
\* A worker prints at most MaxChunks chunks.
MaxChunks == 3

\* the StdoutCatcher of each call
CatcherNames == <<"catcher1", "catcher2", "catcher3">>

Catcher(c) == CatcherNames[c]

\* the call whose catcher the stream is
CallOf(stream) == CHOOSE c \in StreamCalls : Catcher(c) = stream

\* line 77: q.put(None)
Sentinel == [end |-> TRUE, txt |-> << >>]

\* line 46: q.put(txt)
Chunk(txt) == [end |-> FALSE, txt |-> txt]

\* the k-th text the worker of call c writes to sys.stdout: its second
\* write is the empty text
ChunkText(c, k) ==
  IF k = 2 THEN << >> ELSE <<"#", DigitText[c], DigitText[k]>>

\* lines 44-46: StdoutCatcher.write
write(queue, txt) ==
  IF txt # << >> THEN Append(queue, Chunk(txt)) ELSE queue

\* the finally clause puts no sentinel
WorkerEnds_NoSentinel(c) ==
  /\ w_pc[c] = "running"
  /\ w_pc' = [w_pc EXCEPT ![c] = "signalled"]
  /\ UNCHANGED <<sys_stdout, old_stdout, q, taken, yielded, g_pc, to_print,
                 agentVars, postVars, forwardVars>>

\* line 51: old_stdout = sys.stdout (line 40 made the queue)
StreamSave(c) ==
  /\ g_pc[c] = "created"
  /\ g_pc' = [g_pc EXCEPT ![c] = "saved"]
  /\ old_stdout' = [old_stdout EXCEPT ![c] = sys_stdout]
  /\ UNCHANGED <<sys_stdout, q, taken, yielded, w_pc, to_print,
                 agentVars, postVars, forwardVars>>

\* lines 52-84: sys.stdout = StdoutCatcher(), the worker thread is started,
\* output = ""
StreamPatch(c) ==
  /\ g_pc[c] = "saved"
  /\ g_pc' = [g_pc EXCEPT ![c] = "waiting"]
  /\ sys_stdout' = Catcher(c)
  /\ w_pc' = [w_pc EXCEPT ![c] = "running"]
  /\ to_print' = [to_print EXCEPT ![c] = [k \in 1..MaxChunks |-> ChunkText(c, k)]]
  /\ UNCHANGED <<old_stdout, q, taken, yielded,
                 agentVars, postVars, forwardVars>>

\* lines 57-74: one write of the worker to sys.stdout as it is then; the
\* original stream shows the text on the console
WorkerPrint(c) ==
  /\ w_pc[c] = "running"
  /\ to_print[c] # << >>
  /\ to_print' = [to_print EXCEPT ![c] = Tail(to_print[c])]
  /\ q' = IF sys_stdout = "original"
            THEN q
            ELSE [q EXCEPT ![CallOf(sys_stdout)] = write(@, Head(to_print[c]))]
  /\ UNCHANGED <<sys_stdout, old_stdout, taken, yielded, g_pc, w_pc,
                 agentVars, postVars, forwardVars>>

\* lines 75-77: the try block ends, all printed or by an exception of
\* display_welcome or agent.run, and finally puts the sentinel
WorkerEnds(c) ==
  /\ w_pc[c] = "running"
  /\ w_pc' = [w_pc EXCEPT ![c] = "signalled"]
  /\ q' = [q EXCEPT ![c] = Append(@, Sentinel)]
  /\ UNCHANGED <<sys_stdout, old_stdout, taken, yielded, g_pc, to_print,
                 agentVars, postVars, forwardVars>>

\* line 78: sys.stdout = old_stdout
WorkerRestores(c) ==
  /\ w_pc[c] = "signalled"
  /\ w_pc' = [w_pc EXCEPT ![c] = "finished"]
  /\ sys_stdout' = old_stdout[c]
  /\ UNCHANGED <<old_stdout, q, taken, yielded, g_pc, to_print,
                 agentVars, postVars, forwardVars>>

\* lines 85-90: q.get() returns the next item; None ends the generator, a
\* chunk is added to output and output is yielded
StreamGet(c) ==
  /\ g_pc[c] = "waiting"
  /\ taken[c] < Len(q[c])
  /\ taken' = [taken EXCEPT ![c] = @ + 1]
  /\ LET chunk == q[c][taken[c] + 1]
         output == IF yielded[c] = << >> THEN << >>
                   ELSE yielded[c][Len(yielded[c])]
     IN  IF chunk.end
           THEN /\ g_pc' = [g_pc EXCEPT ![c] = "done"]
                /\ UNCHANGED yielded
           ELSE /\ yielded' = [yielded EXCEPT ![c] = Append(@, output \o chunk.txt)]
                /\ UNCHANGED g_pc
  /\ UNCHANGED <<sys_stdout, old_stdout, q, w_pc, to_print,
                 agentVars, postVars, forwardVars>>

NextStream ==
  \E c \in StreamCalls :
    \/ StreamSave(c)
    \/ StreamPatch(c)
    \/ WorkerPrint(c)
    \/ WorkerEnds(c)
    \/ WorkerRestores(c)
    \/ StreamGet(c)

\* the threads are scheduled and the caller iterates the generator: each
\* worker and each generator takes its steps
SpecStream ==
  /\ InitPost
  /\ [][NextStream]_vars
  /\ \A c \in StreamCalls :
       /\ WF_vars(WorkerPrint(c) \/ WorkerEnds(c) \/ WorkerRestores(c))
       /\ WF_vars(StreamGet(c))

\* --------------------------------------------------- planning once more
\* a planner that leaves out the steps whose tool is not registered
BuildPlanAgain_RegisteredOnly ==
  /\ pc = "done"
  /\ plan_again = << >>
  /\ plan_again' = SelectSeq(_build_plan(user_input),
                             LAMBDA step : step.tool \in tool_map)
  /\ UNCHANGED <<others, user_input, tool_map, record, pc, plan, i,
                 combined_result_snippets, final_payload, ret, calls, writes,
                 decisions, merge, icons_json, result_str, raised, followup>>

\* line 247 of the next run on the same agent: _build_plan is called again
\* with the same request, after a run was executed
BuildPlanAgain ==
  /\ pc = "done"
  /\ plan_again = << >>
  /\ plan_again' = _build_plan(user_input)
  /\ UNCHANGED <<others, user_input, tool_map, record, pc, plan, i,
                 combined_result_snippets, final_payload, ret, calls, writes,
                 decisions, merge, icons_json, result_str, raised, followup>>

NextReplan == Next \/ BuildPlanAgain

SpecReplan == Init /\ [][NextReplan]_vars

\* ------------------------------------------------- planning, every request
\* the pieces request texts are put together from
Fragments ==
  { <<"2">>, <<"+">>, <<"?">>, <<" ">>, <<"w", "h", "a", "t", " ", "i", "s", " ">>, <<"p", "r", "o", "o", "f", "s">>,
    <<"P", "l", "e", "a", "s", "e", " ", "a", "n", "a", "l", "y", "z", "e", " ", "t", "h", "e", " ", "c", "o", "d", "e", " ", "f", "i", "l", "e", " ", "'", "a", ".", "p", "y", "'">>, <<"q", "w", "r", "t", "p", "s", "d">>,
    <<"a", "s", "d", "k", "j", "h", "q", "w", "p", "o", "i", "x">> }

\* the texts of at most n fragments
RECURSIVE FragmentTexts(_)
FragmentTexts(n) ==
  IF n = 0
    THEN {<< >>}
    ELSE LET shorter == FragmentTexts(n - 1)
         IN  shorter \cup {t \o f : t \in shorter, f \in Fragments}

InitPlan ==
  /\ user_input \in FragmentTexts(MaxFrags)
  /\ tool_map = ToolNames
  /\ record = NoRecord
  /\ pc = "start"
  /\ plan = << >>
  /\ i = 1
  /\ combined_result_snippets = << >>
  /\ final_payload = None
  /\ ret = NotReturned
  /\ calls = << >>
  /\ writes = << >>
  /\ decisions = << >>
  /\ merge = "none"
  /\ icons_json = NoResult
  /\ result_str = NoResult
  /\ raised = {}
  /\ followup = << >>
  /\ plan_again = << >>
  /\ OthersInit

\* _build_plan on every request text
SpecPlan == InitPlan /\ [][BuildPlan]_vars

\* ------------------------------------------------------------------ claims
\* the positions of tool in the plan
StepsOf(tool) == {k \in DOMAIN plan : plan[k].tool = tool}

\* the tools whose forward was called
Called == {calls[k].tool : k \in DOMAIN calls}

\* the context final_answer was called with
FinalAnswerCalls == {k \in DOMAIN calls : calls[k].tool = "final_answer"}

AnalysisTools == {"code_analysis", "sympy", "arxiv_search"}

Last(s) == s[Len(s)]

\* C1: for every request text, the plan _build_plan returns holds exactly
\* one final_answer step, and that step is the last of the plan.
C1_OneFinalAnswerLast ==
  pc # "start" =>
    /\ Len(plan) >= 1
    /\ Last(plan).tool = "final_answer"
    /\ Cardinality(StepsOf("final_answer")) = 1

C1_Witness ==
  /\ pc = "loop"
  /\ PlanTools(plan) = <<"ask_clarification", "sympy", "arxiv_search", "final_answer">>

\* the label that opens the error snippet of a step
ErrorLabel(tool) ==
  <<"[">> \o ToolNameText(tool) \o <<" ", "E", "R", "R", "O", "R", "]">>

\* C2 as stated: when the forward of a code_analysis, sympy or arxiv_search
\* step raised, the run did not raise, the step's labelled error snippet is in
\* the shared context, every later step of the plan was executed, and
\* final_answer was called with a context that contains the snippet.
ErrorHandled(tool) ==
  /\ ret.kind # "raised"
  /\ \E k \in DOMAIN combined_result_snippets :
       OccursAt(combined_result_snippets[k], ErrorLabel(tool), 1)
  /\ \A k \in DOMAIN plan :
       (\A j \in StepsOf(tool) : k > j) => plan[k].tool \in Called
  /\ FinalAnswerCalls # {}
  /\ \A k \in FinalAnswerCalls :
       Contains(calls[k].args.result, ErrorLabel(tool))

C2_AsStated ==
  pc = "done" => \A tool \in AnalysisTools \cap raised : ErrorHandled(tool)

\* C2, amended: the same, provided the tool of every later step of the plan
\* is registered.
LaterToolsRegistered(tool) ==
  \A k \in DOMAIN plan :
    (\A j \in StepsOf(tool) : k > j) => plan[k].tool \in tool_map

C2_ErrorSnippetReachesFinalAnswer ==
  pc = "done" =>
    \A tool \in AnalysisTools \cap raised :
      LaterToolsRegistered(tool) => ErrorHandled(tool)

C2_Witness ==
  /\ pc = "done"
  /\ raised = {"sympy"}
  /\ PlanTools(plan) = <<"sympy", "arxiv_search", "final_answer">>
  /\ ret.kind = "json"

\* C3: when every tool the plan names is registered, run raises nothing to
\* its caller whatever fails (a tool's forward, the parse of the synthesis
\* output, the visualizer, the file operations), and what it returns when it
\* is done is a JSON text.
AllPlanToolsRegistered == \A k \in DOMAIN plan : plan[k].tool \in tool_map

C3_RunNeverRaises ==
  AllPlanToolsRegistered =>
    /\ ret.kind # "raised"
    /\ pc = "done" => ret.kind = "json"

C3_Witness ==
  /\ pc = "done"
  /\ ret.kind = "json"
  /\ "arxiv_search" \in raised
  /\ \E k \in DOMAIN combined_result_snippets :
       combined_result_snippets[k] = ErrorSnippet("final_answer", "OSError")

\* C4 as stated: when a plan step names a tool that is not registered, run
\* raises a fault to its caller instead of returning a result.
C4_UnknownToolRaises ==
  (pc = "done" /\ i <= Len(plan) /\ plan[i].tool \notin tool_map) =>
    ret.kind = "raised"

\* C5 as stated: every payload run returns, and every payload written to the
\* record, has a visual_brief key and a visual_assets.icons key.
HasVisualKeys(p) ==
  /\ p.t = "dict"
  /\ p.visual_brief.t # JAbsent
  /\ p.visual_assets.t = "dict"
  /\ p.visual_assets.icons.t # JAbsent

C5_VisualKeysAlwaysPresent ==
  /\ ret.kind = "json" => HasVisualKeys(ret.value)
  /\ (writes # << >> /\ record.state \in {"complete", "partial"}) =>
       HasVisualKeys(record.content)

\* C6 as stated, for the runs in which no file operation failed: when the
\* synthesis output is not a JSON object, the payload is the minimal payload
\* around the raw output, it was persisted, and the icon decision was taken.
FileOperationFailed ==
  \E k \in DOMAIN combined_result_snippets :
    combined_result_snippets[k] = ErrorSnippet("final_answer", "OSError")

Unparseable(text) == ~text.json \/ text.value.t # "dict"

C6_MalformedOutputBecomesMinimalPayload ==
  (pc = "done" /\ result_str # NoResult /\ Unparseable(result_str)
     /\ ~FileOperationFailed) =>
    /\ final_payload.t = "dict"
    /\ final_payload.question = QStr(user_input)
    /\ final_payload.visual_brief = VBList(<< >>)
    /\ ~result_str.json =>
         final_payload.explanation = ExplDict(ContentStr(result_str.raw))
    /\ writes # << >>
    /\ decisions # << >>
    /\ ret.kind = "json" /\ ret.value = final_payload

\* C7 as stated: from the first save of a run on, the record holds a
\* complete serialization, the previous one or the new one.
C7_RecordAlwaysComplete ==
  writes # << >> => record.state = "complete"

\* C8 as stated: when a file operation of the final_answer step failed
\* (os.makedirs, open or write), run returns the payload built from the
\* synthesis output, not the fallback payload.
C8_PersistFailureKeepsPayload ==
  (pc = "done" /\ result_str # NoResult /\ FileOperationFailed) =>
    /\ ret.kind = "json"
    /\ final_payload # None
    /\ ret.value = final_payload

\* C9 as stated: the record is opened for writing at most twice in a run,
\* first after final_answer returned and the payload was built and
\* backfilled, before the icon decision; a second time only after the
\* visualizer was called, succeeded, and its icons were merged.
C9_WritesOnlyAfterSuccessfulMerge ==
  /\ Len(writes) <= 2
  /\ Len(writes) >= 1 =>
       /\ writes[1] = "open_synthesis"
       /\ result_str # NoResult
       /\ HasVisualKeys(final_payload)
  /\ decisions # << >> => Len(writes) >= 1
  /\ Len(writes) = 2 =>
       /\ writes[2] = "open_merge"
       /\ "icon_generation" \in Called \ raised
       /\ merge = "merged"

\* C10: the icon decision is true exactly when the request asks for visuals
\* (_wants_icons_from_user), or visual_brief is a non-empty list, or the
\* explanation text holds one of the visual cues; a request that asks for
\* visuals gets true whatever visual_brief holds.
BriefNonEmpty(p) == p.visual_brief.t = "list" /\ Len(p.visual_brief.items) >= 1

ExplanationHasCue(p) ==
  /\ p.explanation.t = "dict"
  /\ p.explanation.content.t = "str"
  /\ \E cue \in visual_cues : Contains(Lower(p.explanation.content.text), cue)

C10_IconDecision ==
  decisions # << >> =>
    LET user_wants == _wants_icons_from_user(user_input)
    IN  /\ Len(decisions) = 1
        /\ decisions[1] = (\/ user_wants
                           \/ BriefNonEmpty(final_payload)
                           \/ ExplanationHasCue(final_payload))
        /\ user_wants => decisions[1]

C10_Witness ==
  /\ user_input = <<"e", "x", "p", "l", "a", "i", "n", " ", "q", "u", "a", "n", "t", "u", "m", " ", "e", "n", "t", "a", "n", "g", "l", "e", "m", "e", "n", "t", " ", "w", "i", "t", "h", " ", "a", " ", "d", "i", "a", "g", "r", "a", "m">>
  /\ decisions = << TRUE >>
  /\ final_payload.visual_brief = VBList(<< >>)
  /\ ~ExplanationHasCue(final_payload)

\* C11: once the visualizer has returned k icons {concept, filename}, the
\* payload's visual_assets.icons is exactly those k entries as {concept,
\* path}, in the same order, whatever it held before; that payload is the one
\* run returns and the one the record holds once the write after the merge
\* is complete; and with a visual_brief of 2 items and 2 returned icons each
\* icon's concept is one of the visual_brief's concepts.
ReturnedIcons == icons_json.value.generated_icons.items

IconsWereReturned ==
  /\ merge # "none"
  /\ icons_json.json
  /\ icons_json.value.t = "dict"
  /\ \A k \in DOMAIN ReturnedIcons : ReturnedIcons[k].t = "dict"

IconsAsPaths ==
  [k \in DOMAIN ReturnedIcons |->
     [concept |-> ReturnedIcons[k].concept, path |-> ReturnedIcons[k].filename]]

MergedAndSaved ==
  /\ pc = "done"
  /\ Len(writes) = 2
  /\ record.state = "complete"

IconsReplacedByReturned ==
  /\ final_payload.visual_assets.icons = IconsList(IconsAsPaths)
  /\ pc = "done" => ret = ReturnedJson(final_payload)
  /\ MergedAndSaved => record.content = final_payload

TwoForTwo ==
  /\ final_payload.visual_brief.t = "list"
  /\ Len(final_payload.visual_brief.items) = 2
  /\ Len(ReturnedIcons) = 2

C11_AsStated ==
  IconsWereReturned =>
    /\ IconsReplacedByReturned
    /\ TwoForTwo =>
         \A k \in 1..2 : \E j \in 1..2 :
           final_payload.visual_assets.icons.items[k].concept =
             final_payload.visual_brief.items[j].concept

\* C11, amended: the concept of an icon is the concept of a visual_brief
\* item with the whitespace around it removed.
C11_IconsAreTheReturnedOnes ==
  IconsWereReturned =>
    /\ IconsReplacedByReturned
    /\ TwoForTwo =>
         \A k \in 1..2 : \E j \in 1..2 :
           final_payload.visual_assets.icons.items[k].concept =
             Strip(final_payload.visual_brief.items[j].concept)

C11_Witness ==
  /\ IconsWereReturned
  /\ TwoForTwo
  /\ MergedAndSaved
  /\ result_str.value.visual_assets.icons = IconsList(<< PriorIcon >>)
  /\ Len(ret.value.visual_assets.icons.items) = 2

\* C12: when the icon decision was true and the visualizer is not registered,
\* or its forward raised, or it returned text that is not JSON,
\* visual_assets.icons is what it was after the backfill of the synthesis
\* output, and run returns the synthesis payload.
SynthesisPayload == Backfill(ParsePayload(user_input, result_str))

VisualizerUnavailable ==
  /\ decisions = << TRUE >>
  /\ "icon_generation" \notin tool_map

VisualizerRaised == "icon_generation" \in raised

VisualizerUnparseable == merge # "none" /\ ~icons_json.json

C12_FailedVisualizerLeavesIcons ==
  (pc = "done" /\ (VisualizerUnavailable \/ VisualizerRaised \/ VisualizerUnparseable)) =>
    /\ final_payload.visual_assets.icons = SynthesisPayload.visual_assets.icons
    /\ ret = ReturnedJson(SynthesisPayload)

\* C13: in every plan _build_plan returns, each of ask_clarification,
\* code_analysis, sympy and arxiv_search occurs at most once, and
\* icon_generation does not occur.
OneShotTools == {"ask_clarification", "code_analysis", "sympy", "arxiv_search"}

C13_OneShotToolsAtMostOnce ==
  pc # "start" =>
    /\ \A tool \in OneShotTools : Cardinality(StepsOf(tool)) <= 1
    /\ StepsOf("icon_generation") = {}

C13_Witness ==
  /\ pc = "loop"
  /\ PlanTools(plan) = <<"code_analysis", "sympy", "final_answer">>

\* C14: in every plan the step at position k (counted from 0) has index k,
\* so the indices are unique and increase by one along the plan, and the
\* tools stand in the relative order ask_clarification, code_analysis, sympy,
\* arxiv_search, final_answer.
ToolOrder ==
  <<"ask_clarification", "code_analysis", "sympy", "arxiv_search", "final_answer">>

ToolRank(tool) == CHOOSE r \in DOMAIN ToolOrder : ToolOrder[r] = tool

C14_IndicesAndToolOrder ==
  pc # "start" =>
    /\ \A k \in DOMAIN plan : plan[k].idx = k - 1
    /\ \A k \in DOMAIN plan : plan[k].tool \in Range(ToolOrder)
    /\ \A j, k \in DOMAIN plan :
         j < k => ToolRank(plan[j].tool) < ToolRank(plan[k].tool)

C14_Witness ==
  /\ pc = "loop"
  /\ Len(plan) = 4
  /\ plan[1].tool = "ask_clarification"
  /\ plan[4].idx = 3

\* C15: for every request text for which _is_trivial_arithmetic is true,
\* _needs_arxiv is false and the plan holds no arxiv_search step.
C15_TrivialMathNoLiterature ==
  (pc # "start" /\ _is_trivial_arithmetic(user_input)) =>
    /\ ~_needs_arxiv(user_input, _looks_like_math(user_input),
                     _extract_code_path(user_input), TRUE)
    /\ StepsOf("arxiv_search") = {}

C15_Witness ==
  /\ pc = "loop"
  /\ _is_trivial_arithmetic(user_input)
  /\ ~_looks_like_math(user_input)
  /\ Contains(user_input, <<"w", "h", "a", "t", " ", "i", "s", " ">>)
  /\ PlanTools(plan) = <<"final_answer">>

\* C16: for every request that holds the wrapper phrase "Please analyze the
\* code file '<path>'" with a path of at least one character, the plan holds
\* exactly one code_analysis step, whose file_path is a path so embedded and
\* whose question is the whole request, and no arxiv_search step.
WrapperPhrase == <<"P", "l", "e", "a", "s", "e", " ", "a", "n", "a", "l", "y", "z", "e", " ", "t", "h", "e", " ", "c", "o", "d", "e", " ", "f", "i", "l", "e", " ", "'">>

PathStarts(text) ==
  {a \in (Len(WrapperPhrase) + 1)..Len(text) :
     OccursAt(text, WrapperPhrase, a - Len(WrapperPhrase))}

PathEnds(text, a) ==
  {b \in a..(Len(text) - 1) :
     /\ \A k \in a..b : text[k] # "'"
     /\ text[b + 1] = "'"}

EmbeddedPaths(text) ==
  UNION { {SubSeq(text, a, b) : b \in PathEnds(text, a)} : a \in PathStarts(text) }

C16_CodePathPlansCodeAnalysis ==
  (pc # "start" /\ EmbeddedPaths(user_input) # {}) =>
    /\ Cardinality(StepsOf("code_analysis")) = 1
    /\ \A k \in StepsOf("code_analysis") :
         /\ plan[k].args.file_path \in EmbeddedPaths(user_input)
         /\ plan[k].args.question = user_input
    /\ StepsOf("arxiv_search") = {}

C16_Witness ==
  /\ pc = "loop"
  /\ Len(user_input) > Len(WrapperPhrase) + 5
  /\ PlanTools(plan) = <<"code_analysis", "final_answer">>
  /\ plan[1].args.file_path = <<"a", ".", "p", "y">>

\* C17: for the request "2+3?" the signals are is_math true, is_trivial_math
\* true and wants_literature_search false, and the plan is exactly sympy,
\* final_answer.
TwoPlusThree == <<"2", "+", "3", "?">>

C17_TwoPlusThreePlan ==
  (pc # "start" /\ user_input = TwoPlusThree) =>
    /\ _looks_like_math(TwoPlusThree)
    /\ _is_trivial_arithmetic(TwoPlusThree)
    /\ ~_needs_arxiv(TwoPlusThree, _looks_like_math(TwoPlusThree),
                     _extract_code_path(TwoPlusThree),
                     _is_trivial_arithmetic(TwoPlusThree))
    /\ PlanTools(plan) = <<"sympy", "final_answer">>

C17_Witness ==
  /\ pc = "done"
  /\ user_input = TwoPlusThree
  /\ [k \in DOMAIN calls |-> calls[k].tool] = <<"sympy", "final_answer">>

\* C18: _needs_clarification is true, and an ask_clarification step planned,
\* only if the trimmed request has fewer than 3 characters, or holds only
\* punctuation and symbols, or is a single word of at least 6 letters with no
\* vowel and none of the intent keywords.
Trimmed == Strip(user_input)

IntentWords == {<<"m", "a", "t", "h">>, <<"c", "o", "d", "e">>, <<"e", "x", "p", "l", "a", "i", "n">>, <<"w", "h", "a", "t">>, <<"w", "h", "y">>, <<"h", "o", "w">>}

TooShort == Len(Trimmed) < 3

OnlyPunctuation ==
  /\ Len(Trimmed) >= 1
  /\ \A k \in DOMAIN Trimmed : Trimmed[k] \notin Letters \cup Digits

SingleLongWord ==
  /\ Len(Trimmed) >= 6
  /\ \A k \in DOMAIN Trimmed : Trimmed[k] \in Letters

NoIntentWord == \A w \in IntentWords : ~Contains(Lower(Trimmed), w)

NoVowel == \A k \in DOMAIN Trimmed : Trimmed[k] \notin Vowels

PlansClarification == StepsOf("ask_clarification") # {}

C18_ClarificationOnlyForGibberish ==
  (pc # "start" /\ (PlansClarification \/ _needs_clarification(user_input))) =>
    \/ TooShort
    \/ OnlyPunctuation
    \/ (SingleLongWord /\ NoVowel /\ NoIntentWord)

\* C19: for the request "asdkjhqwpoix", and for every request that is a
\* single alphabetic word of at least 6 letters holding none of the intent
\* keywords, _needs_clarification is true and the plan starts with an
\* ask_clarification step.
Asdkjhqwpoix == <<"a", "s", "d", "k", "j", "h", "q", "w", "p", "o", "i", "x">>

TheoryVocabulary ==
  {<<"p", "r", "o", "o", "f">>,
   <<"t", "h", "e", "o", "r", "e", "m">>,
   <<"c", "o", "n", "v", "e", "r", "g", "e", "n", "c", "e">>,
   <<"b", "o", "u", "n", "d">>,
   <<"r", "a", "t", "e">>,
   <<"l", "o", "w", "e", "r", " ", "b", "o", "u", "n", "d">>,
   <<"u", "p", "p", "e", "r", " ", "b", "o", "u", "n", "d">>}

LiteratureBySignals ==
  LET has_path == _extract_code_path(user_input) # << >>
      trivial  == _is_trivial_arithmetic(user_input)
      is_math  == _looks_like_math(user_input)
      theory   == \E w \in TheoryVocabulary : Contains(Lower(user_input), w)
  IN  IF has_path \/ trivial THEN FALSE
      ELSE IF is_math THEN theory
      ELSE TRUE

C20_LiteratureFromSignals ==
  pc # "start" =>
    /\ (StepsOf("arxiv_search") # {}) = LiteratureBySignals
    /\ _needs_arxiv(user_input, _looks_like_math(user_input),
                    _extract_code_path(user_input),
                    _is_trivial_arithmetic(user_input)) = LiteratureBySignals

C20_Witness ==
  /\ pc = "loop"
  /\ _looks_like_math(user_input)
  /\ ~_is_trivial_arithmetic(user_input)
  /\ Contains(user_input, <<"p", "r", "o", "o", "f">>)
  /\ Contains(user_input, <<"2">>)
  /\ PlanTools(plan) = <<"sympy", "arxiv_search", "final_answer">>

\* C21: whenever the plan holds a sympy step, its expression is a longest
\* run of digits, ".", whitespace, + - * / ^ and parentheses of the request,
\* and it is the whole request only if the request holds no such run.
SpanChars ==
  {"0", "1", "2", "3", "4", "5", "6", "7", "8", "9", ".", " ", "\n", "\t",
   "+", "-", "*", "/", "^", "(", ")"}

IsSpan(text, a, b) ==
  /\ a <= b
  /\ \A k \in a..b : text[k] \in SpanChars
  /\ (a = 1 \/ text[a - 1] \notin SpanChars)
  /\ (b = Len(text) \/ text[b + 1] \notin SpanChars)

SpanBounds(text) ==
  UNION { {<<a, b>> : b \in {e \in a..Len(text) : IsSpan(text, a, e)}} :
          a \in DOMAIN text }

LongestSpans(text) ==
  {SubSeq(text, x[1], x[2]) :
     x \in {y \in SpanBounds(text) :
              \A z \in SpanBounds(text) : z[2] - z[1] <= y[2] - y[1]}}

C21_ExpressionIsLongestSpan ==
  pc # "start" =>
    \A k \in StepsOf("sympy") :
      IF SpanBounds(user_input) = {}
        THEN plan[k].args.expression = user_input
        ELSE plan[k].args.expression \in LongestSpans(user_input)

\* C22: executing an ask_clarification step changes neither the plan nor the
\* question. Once the plan is built, no step changes it or the request; and
\* in a run that called ask_clarification, whatever it returned, the k-th
\* forward call is that of the k-th planned step with the arguments planned
\* for it, every planned step is called when the run goes through, and
\* final_answer gets the request text as its question.
PlannedCalls == {k \in DOMAIN calls : calls[k].tool # "icon_generation"}

CallsFollowThePlan ==
  /\ plan = _build_plan(user_input)
  /\ \A k \in PlannedCalls :
       /\ k <= Len(plan)
       /\ calls[k].tool = plan[k].tool
       /\ IF calls[k].tool = "final_answer"
            THEN calls[k].args.question = user_input
            ELSE calls[k].args = plan[k].args
  /\ (pc = "done" /\ ret.kind = "json") =>
       \A k \in DOMAIN plan : k \in PlannedCalls

PlanAndRequestKept ==
  pc # "start" => (plan' = plan /\ user_input' = user_input)

C22_ClarificationIsAdvisory ==
  /\ []("ask_clarification" \in Called => CallsFollowThePlan)
  /\ [][PlanAndRequestKept]_vars

C22_Witness ==
  /\ pc = "done"
  /\ ret.kind = "json"
  /\ followup = <<"w", "h", "i", "c", "h", "?">>
  /\ [k \in DOMAIN calls |-> calls[k].tool] =
       <<"ask_clarification", "arxiv_search", "final_answer">>

SnippetTag(tool) ==
  IF tool \in raised
    THEN ErrorLabel(tool)
    ELSE CASE tool = "code_analysis" -> <<"[", "c", "o", "d", "e", "_", "a", "n", "a", "l", "y", "s", "i", "s", "]", "\n">>
           [] tool = "sympy"         -> <<"[", "s", "y", "m", "p", "y", "]", "\n">>
           [] tool = "arxiv_search"  -> <<"[", "a", "r", "x", "i", "v", "]", "\n">>

\* the positions of the steps before final_answer that leave a snippet
SnippetSteps ==
  SelectSeq([k \in 1..(Len(plan) - 1) |-> k],
            LAMBDA k : plan[k].tool \in AnalysisTools \/ plan[k].tool \in raised)

RECURSIVE JoinBlank(_)
JoinBlank(texts) ==
  IF texts = << >> THEN << >>
  ELSE IF Len(texts) = 1 THEN texts[1]
  ELSE texts[1] \o <<"\n", "\n">> \o JoinBlank(Tail(texts))

C24_ContextIsSnippetsInPlanOrder ==
  \A c \in FinalAnswerCalls :
    /\ Len(combined_result_snippets) >= Len(SnippetSteps)
    /\ \A j \in DOMAIN SnippetSteps :
         OccursAt(combined_result_snippets[j],
                  SnippetTag(plan[SnippetSteps[j]].tool), 1)
    /\ calls[c].args.result =
         Strip(JoinBlank(SubSeq(combined_result_snippets, 1, Len(SnippetSteps))))

C24_Witness ==
  /\ FinalAnswerCalls # {}
  /\ raised = {}
  /\ PlanTools(plan) = <<"sympy", "arxiv_search", "final_answer">>
  /\ combined_result_snippets[2] = <<"[", "a", "r", "x", "i", "v", "]", "\n", "o", "k", "\n">>
  /\ \A c \in FinalAnswerCalls :
       calls[c].args.result =
         <<"[", "s", "y", "m", "p", "y", "]", "\n", "o", "k", "\n", "\n",
           "[", "a", "r", "x", "i", "v", "]", "\n", "o", "k">>

\* C25: when run is over, it has returned the fallback payload exactly when
\* no payload was built from final_answer's output during the run, and it has
\* returned the payload built whenever there is one.
PayloadBuilt == final_payload # None

C25_FallbackIffNoPayload ==
  pc = "done" =>
    /\ (ret = ReturnedJson(FallbackPayload(user_input))) = ~PayloadBuilt
    /\ PayloadBuilt => ret = ReturnedJson(final_payload)

\* C26: run never deletes the record; it touches the record only in the two
\* saves, which come after final_answer returned and a payload was built, and
\* what a completed save leaves in the record is that payload (as built, or
\* with the icons merged), never the fallback; so when the final_answer call
\* raised, the record is as it was before the run.
SaveSteps == {"open_synthesis", "write_synthesis", "open_merge", "write_merge"}

RecordOnlyHoldsSynthesis ==
  writes # << >> =>
    /\ "final_answer" \in Called \ raised
    /\ final_payload.t = "dict"
    /\ record.state = "complete" =>
         /\ record.content \in {final_payload, SynthesisPayload}
         /\ record.content # FallbackPayload(user_input)

RecordFrame ==
  /\ record.state # "absent" => record'.state # "absent"
  /\ record' # record => pc \in SaveSteps
  /\ writes' = << >> => record' = record

C26_RecordOnlyTouchedBySaves ==
  /\ [](RecordOnlyHoldsSynthesis /\ ("final_answer" \in raised => writes = << >>))
  /\ [][RecordFrame]_vars

C26_Witness ==
  /\ pc = "done"
  /\ "final_answer" \in raised
  /\ record = PreviousRecord
  /\ ret = ReturnedJson(FallbackPayload(user_input))

\* C27: with the repository's final_answer tool registered, the visual_brief
\* of the payload run returns, and of the payload a completed save of the run
\* left in the record, is a list of 0 to 3 items.
BriefIsList(p) == p.t = "dict" /\ p.visual_brief.t = "list"

BriefCount(p) == Len(p.visual_brief.items)

C27_BriefHasAtMostThreeItems ==
  /\ pc = "done" /\ ret.kind = "json" =>
       BriefIsList(ret.value) /\ BriefCount(ret.value) \in 0..3
  /\ writes # << >> /\ record.state = "complete" =>
       BriefIsList(record.content) /\ BriefCount(record.content) \in 0..3

C27_Witness ==
  /\ pc = "done"
  /\ ret.kind = "json"
  /\ BriefCount(ret.value) = 3
  /\ writes # << >>
  /\ record.state = "complete"
  /\ BriefCount(record.content) = 3

\* C28: a save replaces the record by the serialization of the payload, so
\* when the second save of a run completes with the payload the first save
\* wrote, the record is what the first save left.
SecondSaveCompletes ==
  /\ pc = "write_merge"
  /\ combined_result_snippets' = combined_result_snippets

SamePayloadTwice == final_payload = SynthesisPayload

C28_SavingTwiceIsSavingOnce ==
  /\ [](pc = "open_merge" => record = Complete(SynthesisPayload))
  /\ [][SecondSaveCompletes /\ SamePayloadTwice =>
          record' = Complete(SynthesisPayload)]_vars

C28_Witness ==
  /\ pc = "done"
  /\ writes = <<"open_synthesis", "open_merge">>
  /\ SamePayloadTwice
  /\ record = Complete(SynthesisPayload)
  /\ Len(combined_result_snippets) = Len(SnippetSteps)

\* C29: the forward calls of a run, in the order they were made, are those
\* of the first steps of the plan, one call per step and none left out or
\* repeated; no tool is called twice; and after final_answer was called no
\* clarification or analysis tool is called.
CalledTools == [k \in DOMAIN calls |-> calls[k].tool]

StepsTaken == Cardinality({k \in DOMAIN calls : calls[k].tool # "icon_generation"})

PlannedTools == [k \in DOMAIN plan |-> plan[k].tool]

C29_ToolsCalledInPlanOrder ==
  /\ StepsTaken <= Len(plan)
  /\ SelectSeq(CalledTools, LAMBDA t : t # "icon_generation") =
       SubSeq(PlannedTools, 1, StepsTaken)
  /\ \A j, k \in DOMAIN calls : j # k => CalledTools[j] # CalledTools[k]
  /\ \A j, k \in DOMAIN calls :
       (j < k /\ CalledTools[j] = "final_answer") =>
         CalledTools[k] \notin AnalysisTools \cup {"ask_clarification"}

C29_Witness ==
  /\ pc = "done"
  /\ CalledTools = <<"sympy", "arxiv_search", "final_answer", "icon_generation">>

\* C30: in every run in which final_answer returned and a payload was built
\* and backfilled, the icon decision has been evaluated exactly once when the
\* run is over, whether or not the save that follows the synthesis succeeded,
\* and never before the payload was built; icon_generation is called at most
\* once, only after the decision came out true, and never in a run whose
\* final_answer call raised.
SynthesisBuilt ==
  /\ "final_answer" \in Called \ raised
  /\ final_payload # None
  /\ ~BackfillRaises(ParsePayload(user_input, result_str))

IconCalls == {k \in DOMAIN calls : calls[k].tool = "icon_generation"}

C30_DecisionOnceAfterSynthesis ==
  /\ pc = "done" /\ SynthesisBuilt => Len(decisions) = 1
  /\ decisions # << >> => SynthesisBuilt /\ Len(decisions) = 1
  /\ Cardinality(IconCalls) <= 1
  /\ IconCalls # {} => decisions = << TRUE >>
  /\ "final_answer" \in raised => IconCalls = {}

\* C31: once run has returned the 'Unknown tool' message, it stands at the
\* first step of the plan whose tool is not registered: the tools of the steps
\* before it have been called, each once and in plan order, no later step's
\* tool (final_answer among them) and no visualizer has been called, the
\* record is as the run found it with no save attempted, no payload was
\* built, and what is returned is the message, not a payload.
UnknownToolReturned == ret.kind = "unknown_tool"

C31_UnknownToolStopsTheRun ==
  UnknownToolReturned =>
    /\ pc = "done"
    /\ i \in DOMAIN plan
    /\ plan[i].tool \notin tool_map
    /\ \A k \in 1..(i - 1) : plan[k].tool \in tool_map
    /\ [k \in DOMAIN calls |-> calls[k].tool] = [k \in 1..(i - 1) |-> plan[k].tool]
    /\ "final_answer" \notin Called
    /\ writes = << >>
    /\ record \in {NoRecord, PreviousRecord}
    /\ final_payload = None
    /\ ret.value = None

C31_Witness ==
  /\ UnknownToolReturned
  /\ i = 2
  /\ Len(plan) = 3
  /\ Len(calls) = 1

\* C32: when run stands at the final_answer step with the tool registered,
\* the shared context holds, for each code_analysis, sympy and arxiv_search
\* step executed, exactly one snippet, its output snippet when the call
\* returned and its error snippet when it raised; for an ask_clarification
\* step one error snippet when it raised and none when it returned; and no
\* snippet besides these.
OutputLabel(tool) ==
  CASE tool = "code_analysis" -> <<"[", "c", "o", "d", "e", "_", "a", "n", "a", "l", "y", "s", "i", "s", "]", "\n">>
    [] tool = "sympy"         -> <<"[", "s", "y", "m", "p", "y", "]", "\n">>
    [] tool = "arxiv_search"  -> <<"[", "a", "r", "x", "i", "v", "]", "\n">>
    [] OTHER                  -> <<"[", "]">>

OutputSnippets(tool) ==
  {j \in DOMAIN combined_result_snippets :
     OccursAt(combined_result_snippets[j], OutputLabel(tool), 1)}

ErrorSnippets(tool) ==
  {j \in DOMAIN combined_result_snippets :
     OccursAt(combined_result_snippets[j], ErrorLabel(tool), 1)}

FinalAnswerAboutToRun ==
  /\ pc = "loop"
  /\ i \in DOMAIN plan
  /\ plan[i].tool = "final_answer"
  /\ "final_answer" \in tool_map

C32_OneSnippetPerExecutedStep ==
  FinalAnswerAboutToRun =>
    /\ \A t \in AnalysisTools \cup {"ask_clarification"} :
         /\ Cardinality(OutputSnippets(t)) =
              (IF t \in (Called \cap AnalysisTools) \ raised THEN 1 ELSE 0)
         /\ Cardinality(ErrorSnippets(t)) =
              (IF t \in Called \cap raised THEN 1 ELSE 0)
    /\ Len(combined_result_snippets) =
         Cardinality(Called \cap AnalysisTools)
           + Cardinality(raised \cap {"ask_clarification"})

C32_Witness ==
  /\ FinalAnswerAboutToRun
  /\ raised = {"ask_clarification"}
  /\ Called = {"ask_clarification", "arxiv_search"}
  /\ Len(combined_result_snippets) = 2

\* C33: when run is over and has returned the payload built from
\* final_answer's output, and no operation on the record's file failed during
\* the run, the record holds the complete serialization of exactly the
\* payload returned, merged icons included.
ReturnedSynthesis ==
  /\ pc = "done"
  /\ ret.kind = "json"
  /\ "final_answer" \in Called \ raised
  /\ final_payload # None
  /\ ret.value = final_payload

C33_RecordIsTheReturnedPayload ==
  (ReturnedSynthesis /\ ~FileOperationFailed) => record = Complete(ret.value)

\* C34: for every request text, when _is_trivial_arithmetic holds of it,
\* _looks_like_math holds of it too, and the plan built for it has a sympy
\* step.
C34_TrivialMathIsMath ==
  pc = "loop" =>
    (_is_trivial_arithmetic(user_input) =>
       /\ _looks_like_math(user_input)
       /\ StepsOf("sympy") # {})

\* C35: in one run of the model-driven loop, whatever tools the model asks
\* for and in whatever order, the forward of each of arxiv_search, sympy and
\* code_analysis is called at most once.
ForwardsOf(tool) == {k \in DOMAIN calls : calls[k].tool = tool}

C35_ResearchToolsAtMostOnce ==
  \A t \in {"arxiv_search", "sympy", "code_analysis"} :
    Cardinality(ForwardsOf(t)) <= 1

\* ---------------------------------------------------------------------
\* C36: _post_image sends at most `retries` requests; a request is followed
\* by another one only where its response had status 429 or 503; the call
\* returns only after a response with status 200 and an image content type;
\* after any other response it raises without a further request; where all
\* `retries` responses were 429 or 503 it raises; and every call ends.
Retryable(resp) == resp # NoResponse /\ resp.status \in {429, 503}

ImageSuccess(resp) == resp # NoResponse /\ resp.status = 200 /\ resp.image

PostEnded == post_pc \in {"returned", "raised"}

C36_PostImageIsBounded ==
  /\ [](Len(responses) <= retries)
  /\ [](\A k \in 1..Len(responses) :
          k < Len(responses) => Retryable(responses[k]))
  /\ [](post_pc = "returned" =>
          /\ responses # << >>
          /\ ImageSuccess(responses[Len(responses)]))
  /\ []((responses # << >> /\ ~Retryable(responses[Len(responses)])
           /\ ~ImageSuccess(responses[Len(responses)]))
          => post_pc = "raised")
  /\ []((PostEnded /\ \A k \in 1..Len(responses) : Retryable(responses[k]))
          => post_pc = "raised" /\ Len(responses) = retries)
  /\ (post_pc = "posting") ~> PostEnded

\* the default three attempts: two that are tried again, then the image
C36_Witness ==
  /\ post_pc = "returned"
  /\ retries = 3
  /\ Len(responses) = 3
  /\ responses[1].status = 429
  /\ responses[2].status = 503

\* ---------------------------------------------------------------------
\* C37: forward calls _post_image for the concepts in input order, once
\* each, whether or not an earlier concept failed; in the result it returns
\* total_generated is the length of generated_icons and of icon_paths and
\* is at most the number of concepts, and the entries of generated_icons
\* are those of concepts at increasing positions of the input.
InInputOrder(icons, concepts) ==
  \E f \in [DOMAIN icons -> DOMAIN concepts] :
    /\ \A j, k \in DOMAIN icons : j < k => f[j] < f[k]
    /\ \A j \in DOMAIN icons : icons[j].concept = concepts[f[j]]

C37_EveryConceptAttemptedOnce ==
  /\ Len(attempted) <= Len(concept_list)
  /\ \A k \in DOMAIN attempted : attempted[k] = concept_list[k]
  /\ fwd_pc = "returned" =>
       /\ attempted = concept_list
       /\ fwd_ret.total_generated = Len(fwd_ret.generated_icons)
       /\ fwd_ret.total_generated = Len(fwd_ret.icon_paths)
       /\ fwd_ret.total_generated <= Len(concept_list)
       /\ InInputOrder(fwd_ret.generated_icons, concept_list)

\* three concepts, the second of which failed
C37_Witness ==
  /\ fwd_pc = "returned"
  /\ Len(concept_list) = 3
  /\ fwd_ret.total_generated = 2
  /\ fwd_ret.generated_icons[1].concept = concept_list[1]
  /\ fwd_ret.generated_icons[2].concept = concept_list[3]

\* ---------------------------------------------------------------------
\* C38: for every call of gradio_stream, its queue holds the sentinel once
\* exactly when its worker has left the try block, by its end or by an
\* exception, and not before; the worker prints nothing after it; once the
\* worker has put it the generator ends; and the k-th value the generator
\* yields is the value before it (the empty text at first) followed by the
\* k-th text put in its queue.
SentinelsIn(queue) == Cardinality({k \in DOMAIN queue : queue[k].end})

WorkerLeftTry(c) == w_pc[c] \in {"signalled", "finished"}

YieldsGrowBy(c) ==
  \A k \in DOMAIN yielded[c] :
    /\ k <= Len(q[c])
    /\ ~q[c][k].end
    /\ q[c][k].txt # << >>
    /\ yielded[c][k] =
         (IF k = 1 THEN << >> ELSE yielded[c][k - 1]) \o q[c][k].txt

C38_SentinelOnceAndYieldsGrow ==
  /\ [](\A c \in StreamCalls :
          /\ SentinelsIn(q[c]) = IF WorkerLeftTry(c) THEN 1 ELSE 0
          /\ YieldsGrowBy(c))
  /\ [][\A c \in StreamCalls :
          WorkerLeftTry(c) => to_print'[c] = to_print[c]]_vars
  /\ \A c \in StreamCalls : WorkerLeftTry(c) ~> (g_pc[c] = "done")

\* the worker of the first call was ended by an exception and its generator
\* has ended; the generator of the second call yielded twice and has ended
C38_Witness ==
  /\ w_pc[1] = "finished"
  /\ to_print[1] # << >>
  /\ g_pc[1] = "done"
  /\ g_pc[2] = "done"
  /\ Len(yielded[2]) >= 2

\* ---------------------------------------------------------------------
\* C39: once the worker of every call of gradio_stream has finished,
\* sys.stdout is the stream that was installed before the first call.
C39_StdoutRestoredAfterAllCalls ==
  (\A c \in StreamCalls : w_pc[c] = "finished") => sys_stdout = "original"

====
